---- MODULE Spec2Model ----
(***************************************************************************)
(* A model of the JASPAR-SR data acquisition pipeline (files/get_files.py) *)
(* and of the cross-validation fold construction of models/regression.py.  *)
(*                                                                         *)
(* The output directory is a set of paths; every stage function of         *)
(* get_files is one action that translates the whole function body.        *)
(* The parsing and grouping helpers are modelled on their own inputs in    *)
(* separate specifications further down.                                   *)
(***************************************************************************)
EXTENDS Bags, FiniteSets, Integers, Sequences, TLC

\* ---------------------------------------------------------------------------
\* Bounds
\* ---------------------------------------------------------------------------
NumTaxons == 2      \* how many entries of Jglobals.taxons are modelled
MaxMatrix == 1      \* matrices per taxon in the JASPAR archive
MaxVersion == 2     \* versions per matrix in the JASPAR archive
MaxRuns == 3        \* how many times get_files is launched
TwoDigitVersion == 10  \* the largest version number a file name may carry

\* ---------------------------------------------------------------------------
\* Paths
\* ---------------------------------------------------------------------------
AllTaxons == <<"fungi", "insects", "nematodes", "plants", "urochordates", "vertebrates">>
Taxons == SubSeq(AllTaxons, 1, NumTaxons)
TaxonIdx == 1..NumTaxons

\* os.path.abspath(args.o) and the directories get_files may be launched from
OutDir == <<"out">>
WorkDir == <<"work">>
LaunchDirs == {OutDir, WorkDir}

\* os.path.join(dir, name)
Join(dir, name) == Append(dir, name)

IsPrefix(d, p) == Len(d) <= Len(p) /\ SubSeq(p, 1, Len(d)) = d

\* A variant that removes nothing
RmTrees_Keep(files, dirs) == files

\* shutil.rmtree(dir) for every directory of dirs
RmTrees(files, dirs) == {p \in files : \A dir \in dirs : ~IsPrefix(dir, p)}

pfam_file_ext == ".pfam.json"
profiles_file_ext == ".profiles.json"
uniprot_file_ext == ".uniprot.json"

\* The numeric part of a matrix identifier: matrix m of the i-th taxon
MatrixNo(i, m) == (i - 1) * MaxMatrix + m

\* "MA%04d.%d" for the small numbers of the model
MatrixId(n, v) == "MA000" \o ToString(n) \o "." \o ToString(v)
MemeName(n, v) == MatrixId(n, v) \o ".meme"
JasparName(n, v) == MatrixId(n, v) \o ".jaspar"

VARIABLES
    fs,         \* the paths (files and directories) that exist
    procCwd,    \* os.getcwd()
    cwd,        \* the global cwd recorded by get_files
    pc,         \* the stage get_files is about to call
    ti,         \* index of the taxon of the loop of get_files
    calls,      \* downloads, REST requests and tools invoked in this run
    runs,       \* outcome of every finished run, in order
    archive,    \* the latest version of every matrix in the JASPAR archive of a taxon
    snap,       \* fs at the end of the first run
    globbed,    \* the .meme files found by _group_by_Tomtom at entry
    queried,    \* the .meme files passed to Tomtom as query
    database,   \* the .meme files concatenated into jaspar.meme
    groupKeys   \* the keys of groups.tomtom.json as written

pipeVars == <<fs, procCwd, cwd, pc, ti, calls, runs, archive, snap, globbed, queried, database, groupKeys>>

\* _get_profile_info on the pages of one REST listing
VARIABLES
    pages,       \* the pages of the listing: page i links to page i + 1
    json_obj,    \* the number of the page held by json_obj, 0 before the first
    profiles,    \* the dictionary profiles: matrix_id -> name
    requested,   \* the pages requested with client.get, in order
    processed,   \* the pages whose results were looped over, in order
    profilesOut  \* what was written to <taxon>.profiles.json, if anything

infoVars == <<pages, json_obj, profiles, requested, processed, profilesOut>>

\* _download_UniProt_sequences on the profiles of one taxon, nothing cached
VARIABLES
    profilesIn,  \* the keys of <taxon>.profiles.json
    api,         \* uniprot_ids returned by the JASPAR API for every profile
    pcU,         \* "profiles", "sequences" or "done"
    profTodo,    \* the profiles the first loop has still to visit
    uniaccs,     \* the dictionary uniaccs: accession -> [profiles, sequence]
    accOrder,    \* the keys of uniaccs in insertion order
    accTodo,     \* the accessions the second loop has still to visit
    queries,     \* the accessions passed to uniprot.queryUniprot, in order
    uniprotOut   \* what was written to <taxon>.uniprot.json, if anything

uniVars == <<profilesIn, api, pcU, profTodo, uniaccs, accOrder, accTodo, queries, uniprotOut>>

\* _group_by_DBD_composition on the Pfam files of the taxons
VARIABLES
    pfamsIn,     \* <taxon>.pfam.json of every taxon: accession -> hits
    taxTodo,     \* index of the taxon the loop visits next
    groups,      \* the dictionary groups: domains -> members
    groupsOut    \* what was written to groups.DBDs.json, if anything

dbdVars == <<pfamsIn, taxTodo, groups, groupsOut>>

\* _get_Tomtom_hits on the table of one query
VARIABLES
    tsv,         \* the rows of tomtom.tsv, each a list of columns
    lineNo,      \* the row the loop reads next
    hits,        \* the list hits
    hitsOut      \* the returned list, once returned

hitVars == <<tsv, lineNo, hits, hitsOut>>

\* The fold construction of train_models
VARIABLES
    tfPairs,       \* values[3]: the list of TF pairs
    pcCV,          \* "names", "indexes", "folds" or "done"
    tfIdxs,        \* the dictionary tfIdxs in insertion order: <<tf, idxs>>
    myCViterator   \* the folds: <<trainIdx, testIdx>>

cvVars == <<tfPairs, pcCV, tfIdxs, myCViterator>>

\* The regression script on a pairwise file
VARIABLES
    pairwise,      \* pairwise.pickle: DBD composition -> its list of TF pairs
    trainFs,       \* the files of the out_dir of the regression script
    modelsAtEntry, \* whether models.pickle existed when the script was started
    pcT,           \* "start", or how the process ended
    fitted         \* the <<similarity, fold>> a model was fitted on

trainVars == <<pairwise, trainFs, modelsAtEntry, pcT, fitted>>


\* The worker pool of _group_by_Tomtom
VARIABLES
    threads,     \* the size of the pool
    tasks,       \* jaspar_profiles, the iterable given to pool.imap
    nextTask,    \* index of the next task the pool hands to a worker
    inflight,    \* the bag of <<task, position>> of the calls of Tomtom in progress
    launched,    \* the bag of tasks a call of Tomtom was started for
    poolFs,      \* the paths that exist
    parentPc,    \* "imap", "read", "done" or "err": the position of the parent
    readNo       \* index of the profile whose directory the parent reads next

poolVars == <<threads, tasks, nextTask, inflight, launched, poolFs, parentPc, readNo>>


\* The cut-offs of _download_Pfam_DBD_HMMs
VARIABLES
    cisbpPairs,  \* the lines of the domain/cut-off table, each <<ids, cutoff>>
    loopNo,      \* 1, 2: the loop over pairs in progress; 3: both are over
    pairNo,      \* index of the pair the loop visits next
    cutoffs      \* the dictionary cutoffs

cutVars == <<cisbpPairs, loopNo, pairNo, cutoffs>>


\* _get_profiles_from_latest_version on a collection of paths
VARIABLES
    pathsIn,                  \* the argument jaspar_profiles: a collection of profile paths
    sortedProfiles,           \* sorted(jaspar_profiles, reverse=True), each with its key
    latest_version_profiles,  \* the returned list, once returned
    pcL                       \* "sort", "loop" or "returned"

latestVars == <<pathsIn, sortedProfiles, latest_version_profiles, pcL>>


\* get_files interrupted and launched again: the guarded steps
VARIABLES
    iFs,         \* the paths that exist
    iPc,         \* the guarded step get_files is at, "idle" between launches
    iTaxon,      \* index of the taxon of the loop of get_files
    fmtNo,       \* index of the format _download_JASPAR_profiles fetches next
    fastaRecs,   \* for every taxon, the records written to <taxon>.fa
    dbContent,   \* the profiles concatenated into jaspar.meme, in order
    launches     \* how many times get_files was launched

intVars == <<iFs, iPc, iTaxon, fmtNo, fastaRecs, dbContent, launches>>


vars == <<pipeVars, infoVars, uniVars, dbdVars, hitVars, cvVars, trainVars, poolVars, cutVars, latestVars, intVars>>

InitPipe ==
    /\ fs = {}
    /\ procCwd = WorkDir
    /\ cwd = WorkDir
    /\ pc = "idle"
    /\ ti = 1
    /\ calls = {}
    /\ runs = <<>>
    /\ archive \in [TaxonIdx -> [1..MaxMatrix -> 1..MaxVersion]]
    /\ snap = {}
    /\ globbed = {}
    /\ queried = {}
    /\ database = {}
    /\ groupKeys = {}

\* The pipeline before its first launch
IdlePipe ==
    /\ fs = {}
    /\ procCwd = WorkDir
    /\ cwd = WorkDir
    /\ pc = "idle"
    /\ ti = 1
    /\ calls = {}
    /\ runs = <<>>
    /\ archive = [i \in TaxonIdx |-> [n \in 1..MaxMatrix |-> 1]]
    /\ snap = {}
    /\ globbed = {}
    /\ queried = {}
    /\ database = {}
    /\ groupKeys = {}

\* get_files up to the first stage call: records cwd and creates out_dir
StartRun(d) ==
    /\ pc = "idle"
    /\ Len(runs) < MaxRuns
    /\ procCwd' = d
    /\ cwd' = d
    /\ fs' = fs \cup {OutDir}
    /\ calls' = {}
    /\ ti' = 1
    /\ pc' = "pfam"
    /\ UNCHANGED <<runs, archive, snap, globbed, queried, database, groupKeys>>

\* An uncaught exception ends the run
Fails ==
    /\ pc' = "idle"
    /\ runs' = Append(runs, "err")
    /\ UNCHANGED <<fs, procCwd, cwd, ti, calls, archive, snap, globbed, queried, database, groupKeys>>

\* The Pfam identifiers of the Cis-BP table, and the files hmmpress writes
CisbpDomains == {"Homeobox", "Sox"}
Pressed(dir, hmm) == {Join(dir, hmm \o x) : x \in {".h3f", ".h3i", ".h3m", ".h3p"}}

PfamDir == Join(OutDir, "pfam-DBDs")
CisbpFile == Join(OutDir, "TF_Information_all_motifs.txt.zip")

\* _download_Pfam_DBD_HMMs(out_dir)
DownloadPfamDBDHMMs ==
    /\ pc = "pfam"
    /\ IF Join(OutDir, "pfam-DBDs.json") \notin fs
       THEN /\ fs' = (fs \cup {PfamDir, Join(PfamDir, "all_DBDs.hmm"), Join(OutDir, "pfam-DBDs.json")}
                         \cup {Join(PfamDir, id \o ".hmm") : id \in CisbpDomains}
                         \cup UNION {Pressed(PfamDir, id \o ".hmm") : id \in CisbpDomains}
                         \cup (IF Join(PfamDir, "all_DBDs.hmm") \notin fs
                               THEN Pressed(PfamDir, "all_DBDs.hmm") ELSE {}))
                     \ {CisbpFile}
            /\ calls' = calls \cup (IF CisbpFile \notin fs THEN {"curl"} ELSE {})
                              \cup {"unzip", "fetchPfamMSA", "hmmbuild", "hmmpress"}
       ELSE UNCHANGED <<fs, calls>>
    /\ procCwd' = cwd
    /\ pc' = "jaspar"
    /\ UNCHANGED <<cwd, ti, runs, archive, snap, globbed, queried, database, groupKeys>>

TaxonDir(i) == Join(OutDir, Taxons[i])

\* The "redundant" archive of a taxon holds every version of its matrices
Profiles(i) == {p \in (1..MaxMatrix) \X (1..MaxVersion) : p[2] <= archive[i][p[1]]}

\* The contents of the two archives of a taxon once unzipped in its directory
Unzipped(i) ==
    {Join(TaxonDir(i), JasparName(MatrixNo(i, p[1]), p[2])) : p \in Profiles(i)}
    \cup {Join(TaxonDir(i), MemeName(MatrixNo(i, p[1]), p[2])) : p \in Profiles(i)}

\* A variant that downloads without looking for the taxon directory
DownloadJASPARProfiles_NoGuard ==
    /\ pc = "jaspar"
    /\ fs' = fs \cup {TaxonDir(ti)} \cup Unzipped(ti)
    /\ calls' = calls \cup {"curl", "unzip"}
    /\ procCwd' = cwd
    /\ pc' = "info"
    /\ UNCHANGED <<cwd, ti, runs, archive, snap, globbed, queried, database, groupKeys>>

\* _download_JASPAR_profiles(taxon, out_dir)
DownloadJASPARProfiles ==
    /\ pc = "jaspar"
    /\ IF TaxonDir(ti) \notin fs
       THEN /\ fs' = fs \cup {TaxonDir(ti)} \cup Unzipped(ti)
            /\ calls' = calls \cup {"curl", "unzip"}
            /\ procCwd' = cwd
       ELSE UNCHANGED <<fs, calls, procCwd>>
    /\ pc' = "info"
    /\ UNCHANGED <<cwd, ti, runs, archive, snap, globbed, queried, database, groupKeys>>

ProfilesJson(i) == Join(OutDir, Taxons[i] \o profiles_file_ext)

\* _get_profile_info(taxon, out_dir)
GetProfileInfo ==
    /\ pc = "info"
    /\ IF ProfilesJson(ti) \notin fs
       THEN /\ fs' = fs \cup {ProfilesJson(ti)}
            /\ calls' = calls \cup {"jaspar.api"}
       ELSE UNCHANGED <<fs, calls>>
    /\ pc' = "uniprot"
    /\ UNCHANGED <<procCwd, cwd, ti, runs, archive, snap, globbed, queried, database, groupKeys>>

\* The relative names _download_UniProt_sequences opens after os.chdir(out_dir)
PickleFile(i) == Join(OutDir, "." \o Taxons[i] \o ".uniaccs.pickle")
UniprotJson(dir, i) == Join(dir, Taxons[i] \o uniprot_file_ext)

\* A variant without the final os.chdir(cwd)
DownloadUniProtSequences_StaysInOutDir ==
    /\ pc = "uniprot"
    /\ IF PickleFile(ti) \notin fs /\ ProfilesJson(ti) \notin fs
       THEN Fails
       ELSE /\ fs' = fs \cup {PickleFile(ti), UniprotJson(OutDir, ti)}
            /\ calls' = calls
                   \cup (IF PickleFile(ti) \notin fs THEN {"jaspar.api"} ELSE {})
                   \cup (IF UniprotJson(OutDir, ti) \notin fs THEN {"queryUniprot"} ELSE {})
            /\ procCwd' = OutDir
            /\ pc' = "blast"
            /\ UNCHANGED <<cwd, ti, runs, archive, snap, globbed, queried, database, groupKeys>>

\* _download_UniProt_sequences(taxon, out_dir)
DownloadUniProtSequences ==
    /\ pc = "uniprot"
    /\ IF PickleFile(ti) \notin fs /\ ProfilesJson(ti) \notin fs
       THEN Fails
       ELSE /\ fs' = fs \cup {PickleFile(ti), UniprotJson(OutDir, ti)}
            /\ calls' = calls
                   \cup (IF PickleFile(ti) \notin fs THEN {"jaspar.api"} ELSE {})
                   \cup (IF UniprotJson(OutDir, ti) \notin fs THEN {"queryUniprot"} ELSE {})
            /\ procCwd' = cwd
            /\ pc' = "blast"
            /\ UNCHANGED <<cwd, ti, runs, archive, snap, globbed, queried, database, groupKeys>>

FastaFile(i) == Join(OutDir, Taxons[i] \o ".fa")
BlastDb(i) == {Join(OutDir, Taxons[i] \o ".fa" \o x) : x \in {".phr", ".pin", ".psq"}}

\* _format_BLAST_database(taxon, out_dir): the JSON file is opened by its
\* relative name, that is in the working directory of the process
FormatBLASTDatabase ==
    /\ pc = "blast"
    /\ IF FastaFile(ti) \notin fs
       THEN IF UniprotJson(procCwd, ti) \notin fs
            THEN Fails
            ELSE /\ fs' = fs \cup {FastaFile(ti)} \cup BlastDb(ti)
                 /\ calls' = calls \cup {"makeblastdb"}
                 /\ pc' = "pfamaln"
                 /\ UNCHANGED <<procCwd, cwd, ti, runs, archive, snap, globbed, queried, database, groupKeys>>
       ELSE /\ pc' = "pfamaln"
            /\ UNCHANGED <<fs, calls, procCwd, cwd, ti, runs, archive, snap, globbed, queried, database, groupKeys>>

PfamJson(i) == Join(OutDir, Taxons[i] \o pfam_file_ext)

\* The loop of get_files: the next taxon, or the grouping stages
AfterTaxon ==
    IF ti < NumTaxons
    THEN pc' = "jaspar" /\ ti' = ti + 1
    ELSE pc' = "dbd" /\ ti' = ti

\* _get_Pfam_alignments(taxon, out_dir)
GetPfamAlignments ==
    /\ pc = "pfamaln"
    /\ IF PfamJson(ti) \notin fs
       THEN IF UniprotJson(OutDir, ti) \notin fs
            THEN Fails
            ELSE /\ fs' = (fs \cup {PfamJson(ti)}) \ {Join(OutDir, ".seq.fasta")}
                 /\ calls' = calls \cup {"hmmscan", "hmmalign"}
                 /\ procCwd' = cwd
                 /\ AfterTaxon
                 /\ UNCHANGED <<cwd, runs, archive, snap, globbed, queried, database, groupKeys>>
       ELSE /\ AfterTaxon
            /\ UNCHANGED <<fs, calls, procCwd, cwd, runs, archive, snap, globbed, queried, database, groupKeys>>

DBDsGz == Join(OutDir, "groups.DBDs.json.gz")
DBDsJson == Join(OutDir, "groups.DBDs.json")

\* _group_by_DBD_composition(out_dir)
GroupByDBDComposition ==
    /\ pc = "dbd"
    /\ IF DBDsGz \notin fs
       THEN IF \E i \in TaxonIdx : PfamJson(i) \notin fs \/ UniprotJson(OutDir, i) \notin fs
            THEN Fails
            ELSE /\ fs' = (fs \cup {DBDsGz}) \ {DBDsJson}
                 /\ procCwd' = cwd
                 /\ pc' = "tomtom"
                 /\ UNCHANGED <<cwd, ti, calls, runs, archive, snap, globbed, queried, database, groupKeys>>
       ELSE /\ pc' = "tomtom"
            /\ UNCHANGED <<fs, procCwd, cwd, ti, calls, runs, archive, snap, globbed, queried, database, groupKeys>>

\* The file names "MA<4 digits>.<version>.meme" of the model, each with the
\* numbers a regular expression reads back from it
MemeNames ==
    [name \in {MemeName(nv[1], nv[2]) : nv \in (1..(NumTaxons * MaxMatrix)) \X (1..TwoDigitVersion)} |->
        CHOOSE nv \in (1..(NumTaxons * MaxMatrix)) \X (1..TwoDigitVersion) : name = MemeName(nv[1], nv[2])]

\* Path(out_dir).glob("*/*.meme")
GlobMeme(files) ==
    {p \in files : /\ Len(p) = 3
                   /\ IsPrefix(OutDir, p)
                   /\ p[3] \in DOMAIN MemeNames}

\* The groups of the regular expressions applied to a profile path:
\* "(MA\d{4}).\d.\S+$" and "(MA\d{4}.\d).meme$"
MatrixOf(p) == MemeNames[p[3]][1]
VersionOf(p) == MemeNames[p[3]][2]
MatrixIdOf(p) == MatrixId(MatrixOf(p), VersionOf(p))

\* The characters of str(v) followed by ".": the digits, then 0 - 1 for the
\* dot, which sorts before every digit
RECURSIVE Digits(_)
Digits(v) == IF v < 10 THEN <<v>> ELSE Append(Digits(v \div 10), v % 10)
DigitsDot(v) == Append(Digits(v), 0 - 1)

\* The order of strings, on sequences of character codes
StrLess(s, t) ==
    \E k \in 1..Len(s) :
        /\ k <= Len(t)
        /\ \A j \in 1..(k - 1) : s[j] = t[j]
        /\ s[k] < t[k]

\* The order of pathlib paths: by directory name, then by file name, which
\* for these names is the order of <<directory rank, matrix, str(version)>>
DirRank(p) == CHOOSE i \in 1..Len(AllTaxons) : AllTaxons[i] = p[2]
PathKey(p) == <<DirRank(p), MatrixOf(p), VersionOf(p)>>
KeyLess(a, b) ==
    \/ a[1] < b[1]
    \/ a[1] = b[1] /\ a[2] < b[2]
    \/ a[1] = b[1] /\ a[2] = b[2] /\ StrLess(DigitsDot(a[3]), DigitsDot(b[3]))
PathLess(p, q) == KeyLess(PathKey(p), PathKey(q))

\* A variant that sorts in ascending order: sorted(K)
RECURSIVE SortedReverse_Ascending(_)
SortedReverse_Ascending(K) ==
    IF K = {} THEN <<>>
    ELSE LET low == CHOOSE x \in K : \A y \in K \ {x} : KeyLess(x[1], y[1])
         IN  <<low>> \o SortedReverse_Ascending(K \ {low})

\* sorted(K, reverse=True) for a set of <<key, path>>
RECURSIVE SortedReverse(_)
SortedReverse(K) ==
    IF K = {} THEN <<>>
    ELSE LET top == CHOOSE x \in K : \A y \in K \ {x} : KeyLess(y[1], x[1])
         IN  <<top>> \o SortedReverse(K \ {top})

\* The loop of _get_profiles_from_latest_version over the sorted paths
RECURSIVE LatestLoop(_, _, _)
LatestLoop(paths, done, latest) ==
    IF paths = <<>> THEN latest
    ELSE LET matrix_id == Head(paths)[1][2]
         IN  IF matrix_id \in done
             THEN LatestLoop(Tail(paths), done, latest)
             ELSE LatestLoop(Tail(paths), done \cup {matrix_id}, Append(latest, Head(paths)[2]))

\* _get_profiles_from_latest_version(jaspar_profiles)
GetProfilesFromLatestVersion(S) ==
    LatestLoop(SortedReverse({<<PathKey(p), p>> : p \in S}), {}, <<>>)

Range(q) == {q[i] : i \in DOMAIN q}

TomtomGz == Join(OutDir, "groups.tomtom.json.gz")
TomtomJson == Join(OutDir, "groups.tomtom.json")
JasparMeme == Join(OutDir, "jaspar.meme")

\* The output directory of Tomtom(meme_file, database, out_dir) and its table
TomtomDir(p) == Join(OutDir, "." \o MatrixIdOf(p))
TomtomTsv(p) == Join(TomtomDir(p), "tomtom.tsv")

\* The profiles for which Tomtom(...) runs the tool: no output directory yet
ToRun(files, memes) == {p \in memes : TomtomDir(p) \notin files}

\* _group_by_Tomtom(out_dir, threads), followed by the return of get_files
GroupByTomtom ==
    /\ pc = "tomtom"
    /\ IF TomtomGz \notin fs
       THEN \E jaspar_profiles \in {Range(GetProfilesFromLatestVersion(GlobMeme(fs)))} :
            \E ran \in {ToRun(fs, jaspar_profiles)} :
            \E afterPool \in {fs \cup (IF JasparMeme \notin fs THEN {JasparMeme} ELSE {})
                                 \cup {TomtomDir(p) : p \in ran}
                                 \cup {TomtomTsv(p) : p \in ran}} :
                IF \E p \in jaspar_profiles : TomtomTsv(p) \notin afterPool
                THEN Fails
                ELSE /\ globbed' = GlobMeme(fs)
                     /\ queried' = jaspar_profiles
                     /\ database' = IF JasparMeme \notin fs THEN jaspar_profiles ELSE database
                     /\ groupKeys' = {MatrixIdOf(p) : p \in jaspar_profiles}
                     /\ calls' = calls \cup (IF ran # {} THEN {"tomtom"} ELSE {})
                     /\ \E tomtomDirs \in {{TomtomDir(p) : p \in jaspar_profiles}} :
                        \E zipped \in {(RmTrees(afterPool, tomtomDirs) \cup {TomtomGz}) \ {TomtomJson}} :
                            fs' = RmTrees(zipped, {TaxonDir(i) : i \in TaxonIdx})
                     /\ procCwd' = cwd
                     /\ pc' = "idle"
                     /\ runs' = Append(runs, "ok")
                     /\ snap' = IF runs = <<>> THEN fs' ELSE snap
                     /\ UNCHANGED <<cwd, ti, archive>>
       ELSE /\ pc' = "idle"
            /\ runs' = Append(runs, "ok")
            /\ snap' = IF runs = <<>> THEN fs ELSE snap
            /\ UNCHANGED <<fs, procCwd, cwd, ti, calls, archive, globbed, queried, database, groupKeys>>

\* ---------------------------------------------------------------------------
\* _get_profile_info: the paginated listing of the profiles of a taxon
\* ---------------------------------------------------------------------------
MaxPages == 2       \* pages of a listing
MaxResults == 2     \* results per page

\* The entries of the "results" of a page
Results ==
    { [matrix_id |-> "MA0001.1", name |-> "A", collection |-> "CORE"],
      [matrix_id |-> "MA0001.1", name |-> "B", collection |-> "CORE"],
      [matrix_id |-> "MA0002.1", name |-> "A", collection |-> "CORE"],
      [matrix_id |-> "MA0001.1", name |-> "C", collection |-> "UNVALIDATED"] }

SeqsUpTo(S, n) == UNION {[1..k -> S] : k \in 0..n}

\* json_obj["next"] of page i: the following page, or None (0) on the last
NextOf(i) == IF i < Len(pages) THEN i + 1 ELSE 0

\* profiles.setdefault(key, value)
SetDefault(d, key, value) == IF key \in DOMAIN d THEN d ELSE d @@ (key :> value)

\* for profile in json_obj["results"]: add the profiles of the CORE collection
RECURSIVE AddCore(_, _)
AddCore(d, results) ==
    IF results = <<>> THEN d
    ELSE AddCore(IF Head(results).collection = "CORE"
                 THEN SetDefault(d, Head(results).matrix_id, Head(results).name)
                 ELSE d,
                 Tail(results))

NoFile == [written |-> FALSE]
Empty == <<>>

IdleInfo ==
    /\ pages = <<>>
    /\ json_obj = 0
    /\ profiles = Empty
    /\ requested = <<>>
    /\ processed = <<>>
    /\ profilesOut = NoFile

InitInfo ==
    /\ pages \in SeqsUpTo(SeqsUpTo(Results, MaxResults), MaxPages) \ {<<>>}
    /\ json_obj = 0
    /\ profiles = Empty
    /\ requested = <<>>
    /\ processed = <<>>
    /\ profilesOut = NoFile

\* response = client.get(url) of the first page
GetFirstPage ==
    /\ json_obj = 0
    /\ requested = <<>>
    /\ pages # <<>>
    /\ json_obj' = 1
    /\ requested' = <<1>>
    /\ UNCHANGED <<pages, profiles, processed, profilesOut>>

\* One iteration of "while json_obj["next"] is not None"
MorePages ==
    /\ json_obj > 0
    /\ profilesOut = NoFile
    /\ NextOf(json_obj) # 0
    /\ profiles' = AddCore(profiles, pages[json_obj])
    /\ processed' = Append(processed, json_obj)
    /\ requested' = Append(requested, NextOf(json_obj))
    /\ json_obj' = NextOf(json_obj)
    /\ UNCHANGED <<pages, profilesOut>>

\* A variant that writes without looping over the results of the last page
LastPage_NotProcessed ==
    /\ json_obj > 0
    /\ profilesOut = NoFile
    /\ NextOf(json_obj) = 0
    /\ profiles' = profiles
    /\ processed' = processed
    /\ profilesOut' = [written |-> TRUE, content |-> profiles']
    /\ UNCHANGED <<pages, json_obj, requested>>

\* "Do last page" and the write of the JSON file
LastPage ==
    /\ json_obj > 0
    /\ profilesOut = NoFile
    /\ NextOf(json_obj) = 0
    /\ profiles' = AddCore(profiles, pages[json_obj])
    /\ processed' = Append(processed, json_obj)
    /\ profilesOut' = [written |-> TRUE, content |-> profiles']
    /\ UNCHANGED <<pages, json_obj, requested>>

\* ---------------------------------------------------------------------------
\* _download_UniProt_sequences: accessions and sequences of the profiles
\* ---------------------------------------------------------------------------
MaxIds == 2         \* uniprot_ids per profile in an API response

\* A string with its leading and trailing spaces counted apart
Str(lead, text, trail) == [lead |-> lead, text |-> text, trail |-> trail]
Plain(text) == Str(0, text, 0)

\* uniacc.strip(" ")
Strip(s) == s.text

faulty_profiles ==
    [p \in {"MA0024.1", "MA0046.1", "MA0052.1", "MA0058.1", "MA0098.1",
            "MA0110.1", "MA0138.1", "MA0328.1", "MA0529.1", "MA0529.2"} |->
        CASE p = "MA0024.1" -> <<Plain("Q01094")>>
          [] p = "MA0046.1" -> <<Plain("P20823")>>
          [] p = "MA0052.1" -> <<Plain("Q02078")>>
          [] p = "MA0058.1" -> <<Plain("P61244")>>
          [] p = "MA0098.1" -> <<Plain("P14921")>>
          [] p = "MA0110.1" -> <<Plain("P46667")>>
          [] p = "MA0138.1" -> <<Plain("Q13127")>>
          [] p = "MA0328.1" -> <<Plain("P0CY08")>>
          [] p = "MA0529.1" -> <<Plain("Q94513")>>
          [] p = "MA0529.2" -> <<Plain("Q94513")>>]

faulty_sequences ==
    [a \in {"B9GPL8"} |-> <<
       "MEEVGAQVAAPIFIHEALSSRYCDMTSMAKKHDLSYQSPNSQLQQHQFLQASREKNWNSK",
       "AWDWDSVDDDGLGLNLGGSLTSVEEPVSRPNKRVRSGSPGNGSYPMCQVDNCKEDLSKAK",
       "DYHRRHKVCQVHSKATKALVGKQMQRFCQQCSRFHPLTEFDEGKRSCRRRLAGHNRRRRK",
       "TQPEDVTSRLLLPGNPDMNNNGNLDIVNLLTALARSQGKTYLPMIDFYVPPFVLTNCPTV",
       "PDKDQLIQILNKINSLPLPMDLAAKLSNIASLNVKNPNQPYLGHQNRLNGTASSPSTNDL",
       "LAVLSTTLAASAPDALAILSQRSSQSSDNDKSKLPGPNQVTVPHLQKRSNVEFPAVGVER",
       "ISRCYESPAEDSDYQIQESRPNLPLQLFSSSPENESRQKPASSGKYFSSDSSNPIEERSP",
       "SSSPPVVQKLFPLQSTAETMKSEKMSVSREVNANVEGDRSHGCVLPLELFRGPNREPDHS",
       "SFQSFPYRGGYTSSSGSDHSPSSQNSDPQDRTGRIIFKLFDKDPSHFPGTLRTKIYNWLS",
       "NSPSEMESYIRPGCVVLSVYLSMPSASWEQLERNLLQLVDSLVQDSDSDLWRSGRFLLNT",
       "GRQLASHKDGKVRLCKSWRTWSSPELILVSPVAVIGGQETSLQLKGRNLTGPGTKIHCTY",
       "MGGYTSKEVTDSSSPGSMYDEINVGGFKIHGPSPSILGRCFIEVENGFKGNSFPVIIADA",
       "SICKELRLLESEFDENAVVSNIVSEEQTRDLGRPRSREEVMHFLNELGWLFQRKSMPSMH",
       "EAPDYSLNRFKFLLIFSVERDYCVLVKTILDMLVERNTCRDELSKEHLEMLYEIQLLNRS",
       "VKRRCRKMADLLIHYSIIGGDNSSRTYIFPPNVGGPGGITPLHLAACASGSDGLVDALTN",
       "DPHEIGLSCWNSVLDANGLSPYAYAVMTKNHSYNLLVARKLADKRNGQISVAIGNEIEQA",
       "ALEQEHVTISQFQRERKSCAKCASVAAKMHGRFLGSQGLLQRPYVHSMLAIAAVCVCVCL",
       "FFRGAPDIGLVAPFKWENLNYGTI"
    >>]

\* The profiles of the model in the order of sorted(profiles)
ProfileOrder == <<"MA0002.1", "MA0024.1">>
ProfileUniverse == {ProfileOrder[i] : i \in DOMAIN ProfileOrder}

\* The uniprot_ids the JASPAR API may return
RawAccessions ==
    {Plain("Q01094"), Plain("P12345"), Str(1, "P12345", 1), Plain("B9GPL8"), Str(0, "B9GPL8", 1)}

\* u["sequence   0"] of the UniProt record of an accession, line by line
UniprotLines(acc) == <<"M" \o acc, "KR", "">>

\* "".join(parts)
RECURSIVE JoinStr(_)
JoinStr(parts) == IF parts = <<>> THEN "" ELSE Head(parts) \o JoinStr(Tail(parts))

\* sorted(S) for a set of profiles
RECURSIVE FilterSeq(_, _)
FilterSeq(q, S) ==
    IF q = <<>> THEN <<>>
    ELSE IF Head(q) \in S THEN <<Head(q)>> \o FilterSeq(Tail(q), S)
         ELSE FilterSeq(Tail(q), S)
SortedProfiles(S) == FilterSeq(ProfileOrder, S)

None == "None"

IdleUni ==
    /\ profilesIn = {}
    /\ api = <<>>
    /\ pcU = "done"
    /\ profTodo = <<>>
    /\ uniaccs = Empty
    /\ accOrder = <<>>
    /\ accTodo = <<>>
    /\ queries = <<>>
    /\ uniprotOut = NoFile

InitUni ==
    /\ profilesIn \in SUBSET ProfileUniverse
    /\ api \in [profilesIn -> SeqsUpTo(RawAccessions, MaxIds)]
    /\ pcU = "profiles"
    /\ profTodo = SortedProfiles(profilesIn)
    /\ uniaccs = Empty
    /\ accOrder = <<>>
    /\ accTodo = <<>>
    /\ queries = <<>>
    /\ uniprotOut = NoFile

\* A variant that keeps the uniprot_ids of the API
FixFaulty_Ignored(profile, uniprot_ids) == uniprot_ids

\* "Fix faulty profiles": the uniprot_ids used for a profile
FixFaulty(profile, uniprot_ids) ==
    IF profile \in DOMAIN faulty_profiles THEN faulty_profiles[profile] ELSE uniprot_ids

\* A variant that appends the profile without looking for it in the list
AddUniacc_Repeated(d, profile, raw) ==
    LET uniacc == Strip(raw)
        d1 == SetDefault(d, uniacc, [profs |-> <<>>, seq |-> None])
    IN  [d1 EXCEPT ![uniacc].profs = Append(@, profile)]

\* The body of "for uniacc in json_obj["uniprot_ids"]" for one accession
AddUniacc(d, profile, raw) ==
    LET uniacc == Strip(raw)
        d1 == SetDefault(d, uniacc, [profs |-> <<>>, seq |-> None])
    IN  IF profile \in Range(d1[uniacc].profs) THEN d1
        ELSE [d1 EXCEPT ![uniacc].profs = Append(@, profile)]

RECURSIVE AddUniaccs(_, _, _)
AddUniaccs(d, profile, ids) ==
    IF ids = <<>> THEN d
    ELSE AddUniaccs(AddUniacc(d, profile, Head(ids)), profile, Tail(ids))

\* The keys a dictionary gains from the accessions, in insertion order
RECURSIVE NewKeys(_, _)
NewKeys(order, ids) ==
    IF ids = <<>> THEN order
    ELSE NewKeys(IF Strip(Head(ids)) \in Range(order) THEN order
                 ELSE Append(order, Strip(Head(ids))), Tail(ids))

\* One iteration of "for profile in sorted(profiles)"
VisitProfile ==
    /\ pcU = "profiles"
    /\ profTodo # <<>>
    /\ LET profile == Head(profTodo)
           ids == FixFaulty(profile, api[profile])
       IN  /\ uniaccs' = AddUniaccs(uniaccs, profile, ids)
           /\ accOrder' = NewKeys(accOrder, ids)
    /\ profTodo' = Tail(profTodo)
    /\ UNCHANGED <<profilesIn, api, pcU, accTodo, queries, uniprotOut>>

\* The pickle file is written, and loaded again for the second loop
WritePickle ==
    /\ pcU = "profiles"
    /\ profTodo = <<>>
    /\ pcU' = "sequences"
    /\ accTodo' = accOrder
    /\ UNCHANGED <<profilesIn, api, profTodo, uniaccs, accOrder, queries, uniprotOut>>

\* One iteration of "for uniacc in uniaccs"
VisitAccession ==
    /\ pcU = "sequences"
    /\ accTodo # <<>>
    /\ LET uniacc == Head(accTodo)
       IN  IF uniacc \in DOMAIN faulty_sequences
           THEN /\ uniaccs' = [uniaccs EXCEPT ![uniacc].seq = JoinStr(faulty_sequences[uniacc])]
                /\ queries' = queries
           ELSE /\ uniaccs' = [uniaccs EXCEPT ![uniacc].seq = JoinStr(UniprotLines(uniacc))]
                /\ queries' = Append(queries, uniacc)
    /\ accTodo' = Tail(accTodo)
    /\ UNCHANGED <<profilesIn, api, pcU, profTodo, accOrder, uniprotOut>>

\* The write of <taxon>.uniprot.json
WriteUniprotJson ==
    /\ pcU = "sequences"
    /\ accTodo = <<>>
    /\ uniprotOut' = [written |-> TRUE, content |-> uniaccs]
    /\ pcU' = "done"
    /\ UNCHANGED <<profilesIn, api, profTodo, uniaccs, accOrder, accTodo, queries>>

\* ---------------------------------------------------------------------------
\* _group_by_DBD_composition: proteins grouped by their domain composition
\* ---------------------------------------------------------------------------
MaxHits == 2        \* domain hits per accession

\* The accessions of a Pfam file in the order of its (sorted) keys
AccessionOrder == <<"P12345", "P20823", "Q01094">>
Accessions == {AccessionOrder[i] : i \in DOMAIN AccessionOrder}

\* The hits of hmmScan: (pfam_ac, alignment, start, end, evalue), of which
\* the grouping reads the first two
Hits == {<<"Homeobox", "RRKR">>, <<"Sox", "DHIK">>}

\* uniaccs[uniacc][0]: the profiles of an accession in <taxon>.uniprot.json
ProfilesOfAccession(acc) == IF acc = "Q01094" THEN <<"MA0024.1">> ELSE <<"MA0002.1", "MA0024.1">>

\* "+".join(parts)
RECURSIVE JoinPlus(_)
JoinPlus(parts) ==
    IF parts = <<>> THEN ""
    ELSE IF Len(parts) = 1 THEN Head(parts)
         ELSE Head(parts) \o "+" \o JoinPlus(Tail(parts))

\* A variant without "Skip if no DBD"
AddMember_NoSkip(g, uniacc, values) ==
    LET domains == JoinPlus([i \in DOMAIN values |-> values[i][1]])
        alignments == [i \in DOMAIN values |-> values[i][2]]
        member == <<ProfilesOfAccession(uniacc), alignments, uniacc>>
    IN  [SetDefault(g, domains, <<>>) EXCEPT ![domains] = Append(@, member)]

\* The body of "for uniacc, values in pfams.items()" for one accession
AddMember(g, uniacc, values) ==
    LET domains == JoinPlus([i \in DOMAIN values |-> values[i][1]])
        alignments == [i \in DOMAIN values |-> values[i][2]]
        member == <<ProfilesOfAccession(uniacc), alignments, uniacc>>
    IN  IF domains = "" THEN g
        ELSE [SetDefault(g, domains, <<>>) EXCEPT ![domains] = Append(@, member)]

RECURSIVE AddMembers(_, _, _)
AddMembers(g, pfams, accs) ==
    IF accs = <<>> THEN g
    ELSE AddMembers(AddMember(g, Head(accs), pfams[Head(accs)]), pfams, Tail(accs))

IdleDBD ==
    /\ pfamsIn = <<>>
    /\ taxTodo = 1
    /\ groups = Empty
    /\ groupsOut = NoFile

\* An accession is a protein of one taxon: it is in the Pfam file of at most
\* one taxon (0 for none), with the hits hmmScan found
PfamFiles(where, found) ==
    [i \in TaxonIdx |-> [a \in {b \in Accessions : where[b] = i} |-> found[a]]]

InitDBD ==
    /\ pfamsIn \in {PfamFiles(w[1], w[2]) :
                       w \in [Accessions -> 0..NumTaxons] \X [Accessions -> SeqsUpTo(Hits, MaxHits)]}
    /\ taxTodo = 1
    /\ groups = Empty
    /\ groupsOut = NoFile

\* One iteration of "for taxon in Jglobals.taxons"
VisitTaxon ==
    /\ pfamsIn # <<>>
    /\ groupsOut = NoFile
    /\ taxTodo <= NumTaxons
    /\ groups' = AddMembers(groups, pfamsIn[taxTodo],
                            FilterSeq(AccessionOrder, DOMAIN pfamsIn[taxTodo]))
    /\ taxTodo' = taxTodo + 1
    /\ UNCHANGED <<pfamsIn, groupsOut>>

\* The write of groups.DBDs.json (then compressed)
WriteGroups ==
    /\ pfamsIn # <<>>
    /\ groupsOut = NoFile
    /\ taxTodo > NumTaxons
    /\ groupsOut' = [written |-> TRUE, content |-> groups]
    /\ UNCHANGED <<pfamsIn, taxTodo, groups>>

\* ---------------------------------------------------------------------------
\* _get_Tomtom_hits: the hits of one query read from tomtom.tsv
\* ---------------------------------------------------------------------------
MaxRows == 3        \* rows of a tomtom.tsv

\* Strings are sequences of characters here: the function slices them
QueryId == <<"M", "A", "0", "0", "0", "1", ".", "1">>
OtherVersion == <<"M", "A", "0", "0", "0", "1", ".", "2">>
OtherMatrix == <<"M", "A", "0", "0", "0", "2", ".", "1">>
ThirdMatrix == <<"M", "A", "0", "0", "1", "1", ".", "1">>
Offset == <<"0">>
PValue == <<"1">>

\* The rows a table may hold: a comment, the header, and matches of the query
TsvRows ==
    { << <<"#", " ", "T", "o", "m", "t", "o", "m">> >>,
      << <<"Q", "u", "e", "r", "y", "_", "I", "D">>, <<"T", "a", "r", "g", "e", "t", "_", "I", "D">>,
         <<"O", "f", "f", "s", "e", "t">>, <<"p">>, <<"E">> >>,
      <<QueryId, QueryId, Offset, PValue, <<"0">> >>,
      <<QueryId, OtherVersion, Offset, PValue, <<"7">> >>,
      <<QueryId, OtherMatrix, Offset, PValue, <<"1", "2">> >>,
      <<QueryId, ThirdMatrix, Offset, PValue, <<"3">> >> }

\* s[:n]
Slice(str, n) == SubSeq(str, 1, IF n < Len(str) THEN n ELSE Len(str))

\* s.startswith(prefix)
StartsWith(str, prefix) == Len(prefix) <= Len(str) /\ SubSeq(str, 1, Len(prefix)) = prefix

Digit(c) == CHOOSE d \in 0..9 : ToString(d) = c

\* float(s) for a string of digits
RECURSIVE Float(_)
Float(str) ==
    IF str = <<>> THEN 0
    ELSE 10 * Float(SubSeq(str, 1, Len(str) - 1)) + Digit(str[Len(str)])

IdleHits ==
    /\ tsv = <<>>
    /\ lineNo = 1
    /\ hits = <<>>
    /\ hitsOut = NoFile

InitHits ==
    /\ tsv \in SeqsUpTo(TsvRows, MaxRows)
    /\ lineNo = 1
    /\ hits = <<>>
    /\ hitsOut = NoFile

\* A variant whose "Skip self" compares the whole identifiers
ReadLine_WholeId(h, line) ==
    IF StartsWith(line[1], <<"#">>) THEN h
    ELSE IF line[1] = <<"Q", "u", "e", "r", "y", "_", "I", "D">> THEN h
    ELSE IF line[1] = line[2] THEN h
    ELSE Append(h, <<line[2], Float(line[5])>>)

\* What one iteration of the loop makes of hits for a row
ReadLine(h, line) ==
    IF StartsWith(line[1], <<"#">>) THEN h
    ELSE IF line[1] = <<"Q", "u", "e", "r", "y", "_", "I", "D">> THEN h
    ELSE IF Slice(line[1], 6) = Slice(line[2], 6) THEN h
    ELSE Append(h, <<line[2], Float(line[5])>>)

\* One iteration of "for line in Jglobals.parse_tsv_file(...)"
ReadRow ==
    /\ hitsOut = NoFile
    /\ lineNo <= Len(tsv)
    /\ hits' = ReadLine(hits, tsv[lineNo])
    /\ lineNo' = lineNo + 1
    /\ UNCHANGED <<tsv, hitsOut>>

\* return(hits)
ReturnHits ==
    /\ hitsOut = NoFile
    /\ lineNo > Len(tsv)
    /\ hitsOut' = [written |-> TRUE, content |-> hits]
    /\ UNCHANGED <<tsv, lineNo, hits>>

\* ---------------------------------------------------------------------------
\* train_models and _leaveOneTFOut: the leave-one-TF-out folds
\* ---------------------------------------------------------------------------
MaxPairs == 3       \* TF pairs of a DBD composition

TFs == {"SOX2", "SOX9", "SRY"}

\* tfIdxs.setdefault(tf, []) on a dictionary kept in insertion order
SetDefaultIdxs(d, tf) ==
    IF \E i \in DOMAIN d : d[i][1] = tf THEN d ELSE Append(d, <<tf, <<>> >>)

\* The loop "for tfPair in tfPairs: for tf in tfPair"
RECURSIVE CollectNames(_, _)
CollectNames(d, pairs) ==
    IF pairs = <<>> THEN d
    ELSE CollectNames(SetDefaultIdxs(SetDefaultIdxs(d, Head(pairs)[1]), Head(pairs)[2]), Tail(pairs))

\* A variant that looks at the first TF of the pair only
InPair_FirstOnly(tf, pairs, i) == tf = pairs[i + 1][1]

\* "if tf in tfPairs[i]" for the i-th pair, counted from 0
InPair(tf, pairs, i) == tf = pairs[i + 1][1] \/ tf = pairs[i + 1][2]

\* The loop "for i in range(len(tfPairs))" for one TF: idxs.append(i)
RECURSIVE IdxsOf(_, _, _)
IdxsOf(tf, pairs, n) ==
    IF n = 0 THEN <<>>
    ELSE IF InPair(tf, pairs, n - 1)
         THEN Append(IdxsOf(tf, pairs, n - 1), n - 1)
         ELSE IdxsOf(tf, pairs, n - 1)

\* One fold of _leaveOneTFOut: trainIdx is built from a set, so its order
\* is not determined and it is kept as a set
Fold(idxs, l) ==
    LET range == 0..(l - 1)
        testIdx == idxs
        trainIdx == range \ Range(testIdx)
    IN  <<trainIdx, testIdx>>

IdleCV ==
    /\ tfPairs = <<>>
    /\ pcCV = "done"
    /\ tfIdxs = <<>>
    /\ myCViterator = <<>>

InitCV ==
    /\ tfPairs \in SeqsUpTo(TFs \X TFs, MaxPairs)
    /\ pcCV = "names"
    /\ tfIdxs = <<>>
    /\ myCViterator = <<>>

\* "1. Get the TF names into a dict"
GetNames ==
    /\ pcCV = "names"
    /\ tfIdxs' = CollectNames(<<>>, tfPairs)
    /\ pcCV' = "indexes"
    /\ UNCHANGED <<tfPairs, myCViterator>>

\* "2. For each TF, figure out which index to include"
GetIndexes ==
    /\ pcCV = "indexes"
    /\ tfIdxs' = [k \in DOMAIN tfIdxs |->
                     <<tfIdxs[k][1], tfIdxs[k][2] \o IdxsOf(tfIdxs[k][1], tfPairs, Len(tfPairs))>>]
    /\ pcCV' = "folds"
    /\ UNCHANGED <<tfPairs, myCViterator>>

\* myCViterator = _leaveOneTFOut(tfIdxs, len(tfPairs))
LeaveOneTFOut ==
    /\ pcCV = "folds"
    /\ myCViterator' = [k \in DOMAIN tfIdxs |-> Fold(tfIdxs[k][2], Len(tfPairs))]
    /\ pcCV' = "done"
    /\ UNCHANGED <<tfPairs, tfIdxs>>

\* ---------------------------------------------------------------------------
\* regression.py: the script that holds train_models
\* ---------------------------------------------------------------------------

\* The keys of pairwise.pickle and the TF pairs of a value
Compositions == {"Sox", "Homeobox"}
PairPool == {<<"SOX2", "SOX9">>, <<"SOX9", "SRY">>}

ModelsFile == Join(OutDir, "models.pickle")

IdleTrain ==
    /\ pairwise = <<>>
    /\ trainFs = {}
    /\ modelsAtEntry = FALSE
    /\ pcT = "IndentationError"
    /\ fitted = {}

InitTrain ==
    /\ pairwise \in UNION {[ks -> SeqsUpTo(PairPool, MaxPairs)] : ks \in SUBSET Compositions}
    /\ trainFs \in {{OutDir}, {OutDir, ModelsFile}}
    /\ modelsAtEntry = (ModelsFile \in trainFs)
    /\ pcT = "start"
    /\ fitted = {}

\* The interpreter reads regression.py: the "if" of line 199 has no indented
\* block, so the file does not compile and no statement of it is executed
RunRegression ==
    /\ pcT = "start"
    /\ pcT' = "IndentationError"
    /\ UNCHANGED <<pairwise, trainFs, modelsAtEntry, fitted>>


\* ---------------------------------------------------------------------------
\* _group_by_Tomtom and Tomtom: the worker pool
\* ---------------------------------------------------------------------------
MaxThreads == 2     \* largest number of worker processes

\* The JASPAR archives in which every matrix has the same latest version
SameVersionArchives == {[i \in TaxonIdx |-> [n \in 1..MaxMatrix |-> v]] : v \in 1..MaxVersion}

\* The taxon directories as _download_JASPAR_profiles leaves them
TaxonFiles == UNION {{TaxonDir(i)} \cup Unzipped(i) : i \in TaxonIdx}

IdlePool ==
    /\ threads = 1
    /\ tasks = <<>>
    /\ nextTask = 1
    /\ inflight = EmptyBag
    /\ launched = EmptyBag
    /\ poolFs = {}
    /\ parentPc = "done"
    /\ readNo = 1

\* _group_by_Tomtom at "pool = Pool(threads)": the database is built, and
\* output directories of an earlier run may exist, with or without tomtom.tsv
InitPool ==
    /\ threads \in 1..MaxThreads
    /\ tasks = GetProfilesFromLatestVersion(GlobMeme(TaxonFiles))
    /\ nextTask = 1
    /\ inflight = EmptyBag
    /\ launched = EmptyBag
    /\ \E started \in SUBSET Range(tasks) :
       \E ended \in SUBSET started :
           poolFs = {OutDir, JasparMeme} \cup TaxonFiles
                        \cup {TomtomDir(p) : p \in started} \cup {TomtomTsv(p) : p \in ended}
    /\ parentPc = "imap"
    /\ readNo = 1

\* pool.imap: an idle worker is given the next profile and calls Tomtom
TakeTask ==
    /\ parentPc = "imap"
    /\ nextTask <= Len(tasks)
    /\ BagCardinality(inflight) < threads
    /\ inflight' = inflight (+) SetToBag({<<nextTask, "check">>})
    /\ launched' = launched (+) SetToBag({nextTask})
    /\ nextTask' = nextTask + 1
    /\ UNCHANGED <<threads, tasks, poolFs, parentPc, readNo>>

\* Tomtom: "if not os.path.isdir(output_dir)"
CheckDir(i) ==
    /\ BagIn(<<i, "check">>, inflight)
    /\ inflight' = IF TomtomDir(tasks[i]) \in poolFs
                   THEN inflight (-) SetToBag({<<i, "check">>})
                   ELSE (inflight (-) SetToBag({<<i, "check">>})) (+) SetToBag({<<i, "run">>})
    /\ UNCHANGED <<threads, tasks, nextTask, launched, poolFs, parentPc, readNo>>

\* Tomtom: the tomtom process is started and creates its output directory
RunTomtom(i) ==
    /\ BagIn(<<i, "run">>, inflight)
    /\ poolFs' = poolFs \cup {TomtomDir(tasks[i])}
    /\ inflight' = (inflight (-) SetToBag({<<i, "run">>})) (+) SetToBag({<<i, "wait">>})
    /\ UNCHANGED <<threads, tasks, nextTask, launched, parentPc, readNo>>

\* Tomtom: the tomtom process writes tomtom.tsv and ends; subprocess.run returns
TomtomReturns(i) ==
    /\ BagIn(<<i, "wait">>, inflight)
    /\ poolFs' = poolFs \cup {TomtomTsv(tasks[i])}
    /\ inflight' = inflight (-) SetToBag({<<i, "wait">>})
    /\ UNCHANGED <<threads, tasks, nextTask, launched, parentPc, readNo>>

\* A variant in which the parent leaves the loop once every profile was
\* handed out
ParentJoin_NoWait ==
    /\ parentPc = "imap"
    /\ nextTask > Len(tasks)
    /\ parentPc' = "read"
    /\ UNCHANGED <<threads, tasks, nextTask, inflight, launched, poolFs, readNo>>

\* The loop over pool.imap ends with the last result; pool.close(), pool.join()
ParentJoin ==
    /\ parentPc = "imap"
    /\ nextTask > Len(tasks)
    /\ inflight = EmptyBag
    /\ parentPc' = "read"
    /\ UNCHANGED <<threads, tasks, nextTask, inflight, launched, poolFs, readNo>>

\* One iteration of the loop that reads the hits of a profile and removes
\* its Tomtom directory
ReadAndRemove ==
    /\ parentPc = "read"
    /\ readNo <= Len(tasks)
    /\ IF TomtomTsv(tasks[readNo]) \notin poolFs
       THEN /\ parentPc' = "err"
            /\ UNCHANGED <<poolFs, readNo>>
       ELSE /\ poolFs' = RmTrees(poolFs, {TomtomDir(tasks[readNo])})
            /\ readNo' = readNo + 1
            /\ UNCHANGED parentPc
    /\ UNCHANGED <<threads, tasks, nextTask, inflight, launched>>

\* The write of groups.tomtom.json.gz and the removal of the taxon directories
WriteTomtomGroups ==
    /\ parentPc = "read"
    /\ readNo > Len(tasks)
    /\ poolFs' = RmTrees(poolFs \cup {TomtomGz}, {TaxonDir(i) : i \in TaxonIdx})
    /\ parentPc' = "done"
    /\ UNCHANGED <<threads, tasks, nextTask, inflight, launched, readNo>>


\* ---------------------------------------------------------------------------
\* _download_Pfam_DBD_HMMs: one cut-off per Pfam ID
\* ---------------------------------------------------------------------------

\* Lines of the Cis-BP table after "cut -f 11,13 | sort | uniq", in the byte
\* order of sort; the first column is kept as its identifiers and commas
CutoffLines == <<
    << <<"DUF260">>, "0.5" >>,
    << <<"DUF260", ",", "Sox">>, "0.7" >>,
    << <<"FLO_LFY", ",", "UNKNOWN">>, "0.9" >>,
    << <<"Homeobox", ",", "Homeobox">>, "0.9" >>,
    << <<"LOB">>, "0.70" >>,
    << <<"Sox">>, "0.5" >>,
    << <<"Sox">>, "0.9" >>,
    << <<"Sox", ",", "LOB">>, "0.7" >>,
    << <<"UNKNOWN">>, "0.5" >>,
    << <<"UNKNOWN", ",", "Sox">>, "0.70" >> >>

\* float(cutoff), in hundredths
Float100(str) ==
    CASE str = "0.5" -> 50
      [] str = "0.7" -> 70
      [] str = "0.70" -> 70
      [] str = "0.9" -> 90

faulty_pfam_ids == ("DUF260" :> "LOB") @@ ("FLO_LFY" :> "SAM_LFY")

\* "," in pfam_id
HasComma(ids) == \E i \in DOMAIN ids : ids[i] = ","

\* pfam_ids.split(",")
RECURSIVE SplitComma(_, _, _)
SplitComma(ids, piece, out) ==
    IF ids = <<>> THEN Append(out, piece)
    ELSE IF Head(ids) = ","
         THEN SplitComma(Tail(ids), "", Append(out, piece))
         ELSE SplitComma(Tail(ids), piece \o Head(ids), out)

\* A variant that assigns: cutoffs[pfam_id] = float(cutoff)
AddCutoff_Assign(c, pfam_id, cutoff) ==
    IF pfam_id = "UNKNOWN" THEN c
    ELSE LET id == IF pfam_id \in DOMAIN faulty_pfam_ids THEN faulty_pfam_ids[pfam_id] ELSE pfam_id
         IN  (id :> Float100(cutoff)) @@ c

\* "Skip if not Pfam ID", "Fix faulty Pfam IDs", "Add Pfam ID cut-off"
AddCutoff(c, pfam_id, cutoff) ==
    IF pfam_id = "UNKNOWN" THEN c
    ELSE LET id == IF pfam_id \in DOMAIN faulty_pfam_ids THEN faulty_pfam_ids[pfam_id] ELSE pfam_id
         IN  SetDefault(c, id, Float100(cutoff))

\* The loop "for pfam_id in pfam_ids.split(",")"
RECURSIVE AddCutoffs(_, _, _)
AddCutoffs(c, ids, cutoff) ==
    IF ids = <<>> THEN c
    ELSE AddCutoffs(AddCutoff(c, Head(ids), cutoff), Tail(ids), cutoff)

IdleCut ==
    /\ cisbpPairs = <<>>
    /\ loopNo = 3
    /\ pairNo = 1
    /\ cutoffs = Empty

\* The table holds any of the lines, sorted and without duplicates
InitCut ==
    /\ \E kept \in SUBSET DOMAIN CutoffLines :
           cisbpPairs = FilterSeq(CutoffLines, {CutoffLines[i] : i \in kept})
    /\ loopNo = 1
    /\ pairNo = 1
    /\ cutoffs = Empty

\* One iteration of the first loop over pairs: the single identifiers
SinglePair ==
    /\ loopNo = 1
    /\ pairNo <= Len(cisbpPairs)
    /\ cutoffs' = IF HasComma(cisbpPairs[pairNo][1]) THEN cutoffs
                  ELSE AddCutoff(cutoffs, JoinStr(cisbpPairs[pairNo][1]), cisbpPairs[pairNo][2])
    /\ pairNo' = pairNo + 1
    /\ UNCHANGED <<cisbpPairs, loopNo>>

\* The first loop is over and the second begins
SecondLoop ==
    /\ loopNo = 1
    /\ pairNo > Len(cisbpPairs)
    /\ loopNo' = 2
    /\ pairNo' = 1
    /\ UNCHANGED <<cisbpPairs, cutoffs>>

\* One iteration of the second loop over pairs: the lists of identifiers
MultiPair ==
    /\ loopNo = 2
    /\ pairNo <= Len(cisbpPairs)
    /\ cutoffs' = IF ~HasComma(cisbpPairs[pairNo][1]) THEN cutoffs
                  ELSE AddCutoffs(cutoffs, SplitComma(cisbpPairs[pairNo][1], "", <<>>), cisbpPairs[pairNo][2])
    /\ pairNo' = pairNo + 1
    /\ UNCHANGED <<cisbpPairs, loopNo>>

\* The second loop is over
CutoffsDone ==
    /\ loopNo = 2
    /\ pairNo > Len(cisbpPairs)
    /\ loopNo' = 3
    /\ UNCHANGED <<cisbpPairs, pairNo, cutoffs>>


\* ---------------------------------------------------------------------------
\* _get_profiles_from_latest_version on any collection of profile paths
\* ---------------------------------------------------------------------------
MaxProfiles == 3    \* paths in the collection

\* Version numbers of one and of two digits
VersionNumbers == {1, TwoDigitVersion - 1, TwoDigitVersion}

\* Profile paths <directory>/MA<4 digits>.<version>.meme
ProfilePaths ==
    {Join(TaxonDir(i), MemeName(n, v)) :
        i \in TaxonIdx, n \in 1..(NumTaxons * MaxMatrix), v \in VersionNumbers}

\* The subsets of S of at most n elements
RECURSIVE SubsetsUpTo(_, _)
SubsetsUpTo(S, n) ==
    IF n = 0 THEN {{}}
    ELSE LET smaller == SubsetsUpTo(S, n - 1)
         IN  smaller \cup {T \cup {x} : T \in smaller, x \in S}

IdleLatest ==
    /\ pathsIn = {}
    /\ sortedProfiles = <<>>
    /\ latest_version_profiles = <<>>
    /\ pcL = "returned"

InitLatest ==
    /\ pathsIn \in SubsetsUpTo(ProfilePaths, MaxProfiles)
    /\ sortedProfiles = <<>>
    /\ latest_version_profiles = <<>>
    /\ pcL = "sort"

\* sorted(jaspar_profiles, reverse=True)
SortProfiles ==
    /\ pcL = "sort"
    /\ sortedProfiles' = SortedReverse({<<PathKey(p), p>> : p \in pathsIn})
    /\ pcL' = "loop"
    /\ UNCHANGED <<pathsIn, latest_version_profiles>>

\* The loop over the sorted paths and the return
ReturnLatest ==
    /\ pcL = "loop"
    /\ latest_version_profiles' = LatestLoop(sortedProfiles, {}, <<>>)
    /\ pcL' = "returned"
    /\ UNCHANGED <<pathsIn, sortedProfiles>>


\* ---------------------------------------------------------------------------
\* get_files interrupted at any point and launched again
\* ---------------------------------------------------------------------------

\* for fmt in ["jaspar", "meme"]
Formats == <<"jaspar", "meme">>

\* The files of one archive of a taxon once unzipped in its directory
UnzippedFmt(i, fmt) ==
    {Join(TaxonDir(i), IF fmt = "jaspar" THEN JasparName(MatrixNo(i, p[1]), p[2])
                       ELSE MemeName(MatrixNo(i, p[1]), p[2])) : p \in Profiles(i)}

\* The accessions of <taxon>.uniprot.json, one record of <taxon>.fa each
NumRecords == MaxIds

IdleInt ==
    /\ iFs = {}
    /\ iPc = "idle"
    /\ iTaxon = 1
    /\ fmtNo = 1
    /\ fastaRecs = [i \in TaxonIdx |-> 0]
    /\ dbContent = <<>>
    /\ launches = MaxRuns

InitInt ==
    /\ iFs = {}
    /\ iPc = "idle"
    /\ iTaxon = 1
    /\ fmtNo = 1
    /\ fastaRecs = [i \in TaxonIdx |-> 0]
    /\ dbContent = <<>>
    /\ launches = 0

\* get_files is launched from inside out_dir
Launch ==
    /\ iPc = "idle"
    /\ launches < MaxRuns
    /\ launches' = launches + 1
    /\ iFs' = iFs \cup {OutDir}
    /\ iTaxon' = 1
    /\ iPc' = "jaspar"
    /\ UNCHANGED <<fmtNo, fastaRecs, dbContent>>

\* The process is interrupted; the files stay as they are
Interrupt ==
    /\ iPc # "idle"
    /\ iPc' = "idle"
    /\ UNCHANGED <<iFs, iTaxon, fmtNo, fastaRecs, dbContent, launches>>

\* _download_JASPAR_profiles: "Skip if taxon directory already exists",
\* os.makedirs(taxon_dir)
CheckTaxonDir ==
    /\ iPc = "jaspar"
    /\ IF TaxonDir(iTaxon) \notin iFs
       THEN /\ iFs' = iFs \cup {TaxonDir(iTaxon)}
            /\ fmtNo' = 1
            /\ iPc' = "unzip"
       ELSE /\ iPc' = "blast"
            /\ UNCHANGED <<iFs, fmtNo>>
    /\ UNCHANGED <<iTaxon, fastaRecs, dbContent, launches>>

\* _download_JASPAR_profiles: one iteration of "for fmt": curl, unzip, remove
FetchArchive ==
    /\ iPc = "unzip"
    /\ iFs' = iFs \cup UnzippedFmt(iTaxon, Formats[fmtNo])
    /\ IF fmtNo < Len(Formats)
       THEN fmtNo' = fmtNo + 1 /\ iPc' = iPc
       ELSE fmtNo' = fmtNo /\ iPc' = "blast"
    /\ UNCHANGED <<iTaxon, fastaRecs, dbContent, launches>>

\* The loop of get_files: the next taxon, or _group_by_Tomtom
NextTaxon ==
    IF iTaxon < NumTaxons
    THEN iPc' = "jaspar" /\ iTaxon' = iTaxon + 1
    ELSE iPc' = "database" /\ iTaxon' = iTaxon

\* _format_BLAST_database: "Skip if taxon FASTA file already exists"
CheckFasta ==
    /\ iPc = "blast"
    /\ IF FastaFile(iTaxon) \notin iFs
       THEN iPc' = "records" /\ iTaxon' = iTaxon
       ELSE NextTaxon
    /\ UNCHANGED <<iFs, fmtNo, fastaRecs, dbContent, launches>>

\* _format_BLAST_database: Jglobals.write(fasta_file, ...) for one accession
WriteRecord ==
    /\ iPc = "records"
    /\ fastaRecs[iTaxon] < NumRecords
    /\ fastaRecs' = [fastaRecs EXCEPT ![iTaxon] = @ + 1]
    /\ iFs' = iFs \cup {FastaFile(iTaxon)}
    /\ UNCHANGED <<iPc, iTaxon, fmtNo, dbContent, launches>>

\* _format_BLAST_database: makeblastdb on the written file
MakeBlastDb ==
    /\ iPc = "records"
    /\ fastaRecs[iTaxon] = NumRecords
    /\ iFs' = iFs \cup BlastDb(iTaxon)
    /\ NextTaxon
    /\ UNCHANGED <<fmtNo, fastaRecs, dbContent, launches>>

\* _group_by_Tomtom: "Skip if JASPAR MEME database already exists"; the
\* rest of the stage is left out
CheckDatabase ==
    /\ iPc = "database"
    /\ iPc' = IF JasparMeme \notin iFs THEN "cat" ELSE "idle"
    /\ UNCHANGED <<iFs, iTaxon, fmtNo, fastaRecs, dbContent, launches>>

\* _group_by_Tomtom: "cat %s >> %s" for one profile
CatProfile ==
    /\ iPc = "cat"
    /\ \E jaspar_profiles \in {GetProfilesFromLatestVersion(GlobMeme(iFs))} :
           /\ Len(dbContent) < Len(jaspar_profiles)
           /\ dbContent' = Append(dbContent, jaspar_profiles[Len(dbContent) + 1])
    /\ iFs' = iFs \cup {JasparMeme}
    /\ UNCHANGED <<iPc, iTaxon, fmtNo, fastaRecs, launches>>

\* _group_by_Tomtom: the loop over the profiles is over
DatabaseBuilt ==
    /\ iPc = "cat"
    /\ Len(dbContent) >= Len(GetProfilesFromLatestVersion(GlobMeme(iFs)))
    /\ iPc' = "idle"
    /\ UNCHANGED <<iFs, iTaxon, fmtNo, fastaRecs, dbContent, launches>>


\* ---------------------------------------------------------------------------
\* Specifications
\* ---------------------------------------------------------------------------
Init == InitPipe /\ IdleInfo /\ IdleUni /\ IdleDBD /\ IdleHits /\ IdleCV /\ IdleTrain /\ IdlePool /\ IdleCut /\ IdleLatest /\ IdleInt

Next ==
    \/ (\E d \in LaunchDirs : StartRun(d)) /\ UNCHANGED <<infoVars, uniVars, dbdVars, hitVars, cvVars, trainVars, poolVars, cutVars, latestVars, intVars>>
    \/ DownloadPfamDBDHMMs /\ UNCHANGED <<infoVars, uniVars, dbdVars, hitVars, cvVars, trainVars, poolVars, cutVars, latestVars, intVars>>
    \/ DownloadJASPARProfiles /\ UNCHANGED <<infoVars, uniVars, dbdVars, hitVars, cvVars, trainVars, poolVars, cutVars, latestVars, intVars>>
    \/ GetProfileInfo /\ UNCHANGED <<infoVars, uniVars, dbdVars, hitVars, cvVars, trainVars, poolVars, cutVars, latestVars, intVars>>
    \/ DownloadUniProtSequences /\ UNCHANGED <<infoVars, uniVars, dbdVars, hitVars, cvVars, trainVars, poolVars, cutVars, latestVars, intVars>>
    \/ FormatBLASTDatabase /\ UNCHANGED <<infoVars, uniVars, dbdVars, hitVars, cvVars, trainVars, poolVars, cutVars, latestVars, intVars>>
    \/ GetPfamAlignments /\ UNCHANGED <<infoVars, uniVars, dbdVars, hitVars, cvVars, trainVars, poolVars, cutVars, latestVars, intVars>>
    \/ GroupByDBDComposition /\ UNCHANGED <<infoVars, uniVars, dbdVars, hitVars, cvVars, trainVars, poolVars, cutVars, latestVars, intVars>>
    \/ GroupByTomtom /\ UNCHANGED <<infoVars, uniVars, dbdVars, hitVars, cvVars, trainVars, poolVars, cutVars, latestVars, intVars>>

Spec == Init /\ [][Next]_vars

InitProfileInfo == IdlePipe /\ InitInfo /\ IdleUni /\ IdleDBD /\ IdleHits /\ IdleCV /\ IdleTrain /\ IdlePool /\ IdleCut /\ IdleLatest /\ IdleInt

NextProfileInfo ==
    \/ GetFirstPage /\ UNCHANGED <<pipeVars, uniVars, dbdVars, hitVars, cvVars, trainVars, poolVars, cutVars, latestVars, intVars>>
    \/ MorePages /\ UNCHANGED <<pipeVars, uniVars, dbdVars, hitVars, cvVars, trainVars, poolVars, cutVars, latestVars, intVars>>
    \/ LastPage /\ UNCHANGED <<pipeVars, uniVars, dbdVars, hitVars, cvVars, trainVars, poolVars, cutVars, latestVars, intVars>>

SpecProfileInfo == InitProfileInfo /\ [][NextProfileInfo]_vars

InitUniProt == IdlePipe /\ IdleInfo /\ InitUni /\ IdleDBD /\ IdleHits /\ IdleCV /\ IdleTrain /\ IdlePool /\ IdleCut /\ IdleLatest /\ IdleInt

NextUniProt ==
    \/ VisitProfile /\ UNCHANGED <<pipeVars, infoVars, dbdVars, hitVars, cvVars, trainVars, poolVars, cutVars, latestVars, intVars>>
    \/ WritePickle /\ UNCHANGED <<pipeVars, infoVars, dbdVars, hitVars, cvVars, trainVars, poolVars, cutVars, latestVars, intVars>>
    \/ VisitAccession /\ UNCHANGED <<pipeVars, infoVars, dbdVars, hitVars, cvVars, trainVars, poolVars, cutVars, latestVars, intVars>>
    \/ WriteUniprotJson /\ UNCHANGED <<pipeVars, infoVars, dbdVars, hitVars, cvVars, trainVars, poolVars, cutVars, latestVars, intVars>>

SpecUniProt == InitUniProt /\ [][NextUniProt]_vars

InitGroupDBD == IdlePipe /\ IdleInfo /\ IdleUni /\ InitDBD /\ IdleHits /\ IdleCV /\ IdleTrain /\ IdlePool /\ IdleCut /\ IdleLatest /\ IdleInt

NextGroupDBD ==
    \/ VisitTaxon /\ UNCHANGED <<pipeVars, infoVars, uniVars, hitVars, cvVars, trainVars, poolVars, cutVars, latestVars, intVars>>
    \/ WriteGroups /\ UNCHANGED <<pipeVars, infoVars, uniVars, hitVars, cvVars, trainVars, poolVars, cutVars, latestVars, intVars>>

SpecGroupDBD == InitGroupDBD /\ [][NextGroupDBD]_vars

InitTomtomHits == IdlePipe /\ IdleInfo /\ IdleUni /\ IdleDBD /\ InitHits /\ IdleCV /\ IdleTrain /\ IdlePool /\ IdleCut /\ IdleLatest /\ IdleInt

NextTomtomHits ==
    \/ ReadRow /\ UNCHANGED <<pipeVars, infoVars, uniVars, dbdVars, cvVars, trainVars, poolVars, cutVars, latestVars, intVars>>
    \/ ReturnHits /\ UNCHANGED <<pipeVars, infoVars, uniVars, dbdVars, cvVars, trainVars, poolVars, cutVars, latestVars, intVars>>

SpecTomtomHits == InitTomtomHits /\ [][NextTomtomHits]_vars

InitFolds == IdlePipe /\ IdleInfo /\ IdleUni /\ IdleDBD /\ IdleHits /\ InitCV /\ IdleTrain /\ IdlePool /\ IdleCut /\ IdleLatest /\ IdleInt

NextFolds ==
    \/ GetNames /\ UNCHANGED <<pipeVars, infoVars, uniVars, dbdVars, hitVars, trainVars, poolVars, cutVars, latestVars, intVars>>
    \/ GetIndexes /\ UNCHANGED <<pipeVars, infoVars, uniVars, dbdVars, hitVars, trainVars, poolVars, cutVars, latestVars, intVars>>
    \/ LeaveOneTFOut /\ UNCHANGED <<pipeVars, infoVars, uniVars, dbdVars, hitVars, trainVars, poolVars, cutVars, latestVars, intVars>>

SpecFolds == InitFolds /\ [][NextFolds]_vars

InitRegression == IdlePipe /\ IdleInfo /\ IdleUni /\ IdleDBD /\ IdleHits /\ IdleCV /\ InitTrain /\ IdlePool /\ IdleCut /\ IdleLatest /\ IdleInt

NextRegression ==
    \/ RunRegression /\ UNCHANGED <<pipeVars, infoVars, uniVars, dbdVars, hitVars, cvVars, poolVars, cutVars, latestVars, intVars>>

SpecRegression == InitRegression /\ [][NextRegression]_vars


InitWorkerPool == InitPipe /\ archive \in SameVersionArchives /\ IdleInfo /\ IdleUni /\ IdleDBD /\ IdleHits /\ IdleCV /\ IdleTrain /\ InitPool /\ IdleCut /\ IdleLatest /\ IdleInt

NextWorkerPool ==
    \/ TakeTask /\ UNCHANGED <<pipeVars, infoVars, uniVars, dbdVars, hitVars, cvVars, trainVars, cutVars, latestVars, intVars>>
    \/ (\E i \in DOMAIN tasks : CheckDir(i)) /\ UNCHANGED <<pipeVars, infoVars, uniVars, dbdVars, hitVars, cvVars, trainVars, cutVars, latestVars, intVars>>
    \/ (\E i \in DOMAIN tasks : RunTomtom(i)) /\ UNCHANGED <<pipeVars, infoVars, uniVars, dbdVars, hitVars, cvVars, trainVars, cutVars, latestVars, intVars>>
    \/ (\E i \in DOMAIN tasks : TomtomReturns(i)) /\ UNCHANGED <<pipeVars, infoVars, uniVars, dbdVars, hitVars, cvVars, trainVars, cutVars, latestVars, intVars>>
    \/ ParentJoin /\ UNCHANGED <<pipeVars, infoVars, uniVars, dbdVars, hitVars, cvVars, trainVars, cutVars, latestVars, intVars>>
    \/ ReadAndRemove /\ UNCHANGED <<pipeVars, infoVars, uniVars, dbdVars, hitVars, cvVars, trainVars, cutVars, latestVars, intVars>>
    \/ WriteTomtomGroups /\ UNCHANGED <<pipeVars, infoVars, uniVars, dbdVars, hitVars, cvVars, trainVars, cutVars, latestVars, intVars>>

SpecWorkerPool == InitWorkerPool /\ [][NextWorkerPool]_vars


InitCutoffs == IdlePipe /\ IdleInfo /\ IdleUni /\ IdleDBD /\ IdleHits /\ IdleCV /\ IdleTrain /\ IdlePool /\ InitCut /\ IdleLatest /\ IdleInt

NextCutoffs ==
    \/ SinglePair /\ UNCHANGED <<pipeVars, infoVars, uniVars, dbdVars, hitVars, cvVars, trainVars, poolVars, latestVars, intVars>>
    \/ SecondLoop /\ UNCHANGED <<pipeVars, infoVars, uniVars, dbdVars, hitVars, cvVars, trainVars, poolVars, latestVars, intVars>>
    \/ MultiPair /\ UNCHANGED <<pipeVars, infoVars, uniVars, dbdVars, hitVars, cvVars, trainVars, poolVars, latestVars, intVars>>
    \/ CutoffsDone /\ UNCHANGED <<pipeVars, infoVars, uniVars, dbdVars, hitVars, cvVars, trainVars, poolVars, latestVars, intVars>>

SpecCutoffs == InitCutoffs /\ [][NextCutoffs]_vars


InitLatestVersion == IdlePipe /\ IdleInfo /\ IdleUni /\ IdleDBD /\ IdleHits /\ IdleCV /\ IdleTrain /\ IdlePool /\ IdleCut /\ InitLatest /\ IdleInt

NextLatestVersion ==
    \/ SortProfiles /\ UNCHANGED <<pipeVars, infoVars, uniVars, dbdVars, hitVars, cvVars, trainVars, poolVars, cutVars, intVars>>
    \/ ReturnLatest /\ UNCHANGED <<pipeVars, infoVars, uniVars, dbdVars, hitVars, cvVars, trainVars, poolVars, cutVars, intVars>>

SpecLatestVersion == InitLatestVersion /\ [][NextLatestVersion]_vars


InitInterrupted == IdlePipe /\ IdleInfo /\ IdleUni /\ IdleDBD /\ IdleHits /\ IdleCV /\ IdleTrain /\ IdlePool /\ IdleCut /\ IdleLatest /\ InitInt

NextInterrupted ==
    \/ Launch /\ UNCHANGED <<pipeVars, infoVars, uniVars, dbdVars, hitVars, cvVars, trainVars, poolVars, cutVars, latestVars>>
    \/ Interrupt /\ UNCHANGED <<pipeVars, infoVars, uniVars, dbdVars, hitVars, cvVars, trainVars, poolVars, cutVars, latestVars>>
    \/ CheckTaxonDir /\ UNCHANGED <<pipeVars, infoVars, uniVars, dbdVars, hitVars, cvVars, trainVars, poolVars, cutVars, latestVars>>
    \/ FetchArchive /\ UNCHANGED <<pipeVars, infoVars, uniVars, dbdVars, hitVars, cvVars, trainVars, poolVars, cutVars, latestVars>>
    \/ CheckFasta /\ UNCHANGED <<pipeVars, infoVars, uniVars, dbdVars, hitVars, cvVars, trainVars, poolVars, cutVars, latestVars>>
    \/ WriteRecord /\ UNCHANGED <<pipeVars, infoVars, uniVars, dbdVars, hitVars, cvVars, trainVars, poolVars, cutVars, latestVars>>
    \/ MakeBlastDb /\ UNCHANGED <<pipeVars, infoVars, uniVars, dbdVars, hitVars, cvVars, trainVars, poolVars, cutVars, latestVars>>
    \/ CheckDatabase /\ UNCHANGED <<pipeVars, infoVars, uniVars, dbdVars, hitVars, cvVars, trainVars, poolVars, cutVars, latestVars>>
    \/ CatProfile /\ UNCHANGED <<pipeVars, infoVars, uniVars, dbdVars, hitVars, cvVars, trainVars, poolVars, cutVars, latestVars>>
    \/ DatabaseBuilt /\ UNCHANGED <<pipeVars, infoVars, uniVars, dbdVars, hitVars, cvVars, trainVars, poolVars, cutVars, latestVars>>

SpecInterrupted == InitInterrupted /\ [][NextInterrupted]_vars


\* ---------------------------------------------------------------------------
\* Properties of the pipeline
\* ---------------------------------------------------------------------------

\* C1: after one complete, error-free run on an empty output directory, a
\* second run skips every stage: it invokes no download, request or tool.
C1_SecondRunSkipsEveryStage ==
    (runs = <<"ok">> /\ pc # "idle") => calls = {}

\* C2: the paths in out_dir after two consecutive complete runs are the
\* paths that were in out_dir after the first complete run.
C2_TwoRunsLeaveSameFiles ==
    runs = <<"ok", "ok">> => fs = snap

\* The cache artifact of the stage get_files is about to call exists
CachedAtEntry ==
    \/ pc = "pfam" /\ Join(OutDir, "pfam-DBDs.json") \in fs
    \/ pc = "jaspar" /\ TaxonDir(ti) \in fs
    \/ pc = "info" /\ ProfilesJson(ti) \in fs
    \/ pc = "uniprot" /\ PickleFile(ti) \in fs /\ UniprotJson(OutDir, ti) \in fs
    \/ pc = "blast" /\ FastaFile(ti) \in fs
    \/ pc = "pfamaln" /\ PfamJson(ti) \in fs
    \/ pc = "dbd" /\ DBDsGz \in fs
    \/ pc = "tomtom" /\ TomtomGz \in fs

\* C3: a stage whose cache artifact exists at entry invokes no download,
\* request or tool, and leaves every path of out_dir as it is.
C3_CachedStageIsNoOp ==
    [][CachedAtEntry => (fs' = fs /\ calls' = calls)]_vars

\* C3 witness: a rerun has skipped the first four stages on their artifacts
C3_Witness ==
    /\ Len(runs) > 0
    /\ pc = "blast"
    /\ ti = 1
    /\ calls = {}
    /\ {Join(OutDir, "pfam-DBDs.json"), TaxonDir(1), ProfilesJson(1),
        PickleFile(1), UniprotJson(OutDir, 1)} \subseteq fs

IsLatestVersion(p, S) == \A q \in S : MatrixOf(q) = MatrixOf(p) => ~PathLess(p, q)

RECURSIVE Flatten(_)
Flatten(ps) == IF ps = <<>> THEN <<>> ELSE Head(ps) \o Flatten(Tail(ps))

CoreIds(rs) == {rs[i].matrix_id : i \in {j \in DOMAIN rs : rs[j].collection = "CORE"}}

FirstCoreName(rs, id) ==
    rs[CHOOSE i \in DOMAIN rs :
          /\ rs[i].matrix_id = id /\ rs[i].collection = "CORE"
          /\ \A j \in 1..(i - 1) : ~(rs[j].matrix_id = id /\ rs[j].collection = "CORE")].name

\* C4: the written map has exactly the matrix_ids of the CORE results of all
\* pages as keys, each with the name of its first occurrence in page order,
\* and every page is requested once and processed once.
C4_AllPagesCollected ==
    profilesOut # NoFile =>
        /\ DOMAIN profilesOut.content = CoreIds(Flatten(pages))
        /\ \A id \in DOMAIN profilesOut.content :
               profilesOut.content[id] = FirstCoreName(Flatten(pages), id)
        /\ requested = [i \in 1..Len(pages) |-> i]
        /\ processed = [i \in 1..Len(pages) |-> i]

\* C4 witness: a listing of several pages whose first and last page both
\* contribute a key, with a repeated matrix_id, has been written
C4_Witness ==
    /\ profilesOut # NoFile
    /\ Len(pages) > 1
    /\ CoreIds(pages[1]) # {}
    /\ CoreIds(pages[Len(pages)]) \ CoreIds(pages[1]) # {}
    /\ \E id \in CoreIds(pages[1]) \cap CoreIds(pages[Len(pages)]) :
           FirstCoreName(pages[Len(pages)], id) # FirstCoreName(pages[1], id)

\* C4 witness for the listing of a single page
C4_WitnessOnePage ==
    /\ profilesOut # NoFile
    /\ Len(pages) = 1
    /\ CoreIds(pages[1]) # {}

\* ---------------------------------------------------------------------------
\* Properties of _download_UniProt_sequences
\* ---------------------------------------------------------------------------

\* The accessions of a profile: the hard-coded ones if it is listed in
\* faulty_profiles, else the ones of the API, without surrounding spaces
EffectiveIds(p) ==
    LET ids == IF p \in DOMAIN faulty_profiles THEN faulty_profiles[p] ELSE api[p]
    IN  {ids[i].text : i \in DOMAIN ids}

Count(q, x) == Cardinality({i \in DOMAIN q : q[i] = x})

\* The hard-coded sequence of B9GPL8, fragments concatenated
B9GPL8Sequence ==
    "MEEVGAQVAAPIFIHEALSSRYCDMTSMAKKHDLSYQSPNSQLQQHQFLQASREKNWNSKAWDWDSVDDDGLGLNLGGSLTSVEEPVSRPNKRVRSGSPGNGSYPMCQVDNCKEDLSKAKDYHRRHKVCQVHSKATKALVGKQMQRFCQQCSRFHPLTEFDEGKRSCRRRLAGHNRRRRKTQPEDVTSRLLLPGNPDMNNNGNLDIVNLLTALARSQGKTYLPMIDFYVPPFVLTNCPTVPDKDQLIQILNKINSLPLPMDLAAKLSNIASLNVKNPNQPYLGHQNRLNGTASSPSTNDLLAVLSTTLAASAPDALAILSQRSSQSSDNDKSKLPGPNQVTVPHLQKRSNVEFPAVGVERISRCYESPAEDSDYQIQESRPNLPLQLFSSSPENESRQKPASSGKYFSSDSSNPIEERSPSSSPPVVQKLFPLQSTAETMKSEKMSVSREVNANVEGDRSHGCVLPLELFRGPNREPDHSSFQSFPYRGGYTSSSGSDHSPSSQNSDPQDRTGRIIFKLFDKDPSHFPGTLRTKIYNWLSNSPSEMESYIRPGCVVLSVYLSMPSASWEQLERNLLQLVDSLVQDSDSDLWRSGRFLLNTGRQLASHKDGKVRLCKSWRTWSSPELILVSPVAVIGGQETSLQLKGRNLTGPGTKIHCTYMGGYTSKEVTDSSSPGSMYDEINVGGFKIHGPSPSILGRCFIEVENGFKGNSFPVIIADASICKELRLLESEFDENAVVSNIVSEEQTRDLGRPRSREEVMHFLNELGWLFQRKSMPSMHEAPDYSLNRFKFLLIFSVERDYCVLVKTILDMLVERNTCRDELSKEHLEMLYEIQLLNRSVKRRCRKMADLLIHYSIIGGDNSSRTYIFPPNVGGPGGITPLHLAACASGSDGLVDALTNDPHEIGLSCWNSVLDANGLSPYAYAVMTKNHSYNLLVARKLADKRNGQISVAIGNEIEQAALEQEHVTISQFQRERKSCAKCASVAAKMHGRFLGSQGLLQRPYVHSMLAIAAVCVCVCLFFRGAPDIGLVAPFKWENLNYGTI"

\* C5: for a profile of faulty_profiles exactly the hard-coded accessions are
\* recorded; an accession of faulty_sequences gets the concatenated hard-coded
\* fragments and is never queried; every other accession is queried once.
C5_OverridesWin ==
    uniprotOut # NoFile =>
        LET out == uniprotOut.content
        IN  /\ \A p \in profilesIn \cap DOMAIN faulty_profiles :
                   {a \in DOMAIN out : p \in Range(out[a].profs)}
                       = {faulty_profiles[p][i].text : i \in DOMAIN faulty_profiles[p]}
            /\ \A a \in DOMAIN out \cap DOMAIN faulty_sequences :
                   out[a].seq = B9GPL8Sequence /\ Count(queries, a) = 0
            /\ \A a \in DOMAIN out \ DOMAIN faulty_sequences : Count(queries, a) = 1

\* C5 witness: a faulty profile for which the API returned other accessions,
\* a faulty sequence and an ordinary accession were all written
C5_Witness ==
    /\ uniprotOut # NoFile
    /\ "MA0024.1" \in profilesIn
    /\ Plain("P12345") \in Range(api["MA0024.1"])
    /\ "B9GPL8" \in DOMAIN uniprotOut.content
    /\ "P12345" \in DOMAIN uniprotOut.content

\* C6: every key of the written file maps to [profiles, sequence] where
\* profiles lists, once each and in sorted order, exactly the profiles whose
\* accessions include the key, and sequence is not null; the keys are exactly
\* the accessions of the profiles.
C6_UniprotJsonShape ==
    uniprotOut # NoFile =>
        LET out == uniprotOut.content
        IN  /\ DOMAIN out = UNION {EffectiveIds(p) : p \in profilesIn}
            /\ \A a \in DOMAIN out :
                   /\ out[a].profs = SortedProfiles({p \in profilesIn : a \in EffectiveIds(p)})
                   /\ out[a].seq # None

\* C6 witness: an accession shared by two profiles, one of which returned it
\* twice (with and without surrounding spaces), was written
C6_Witness ==
    /\ uniprotOut # NoFile
    /\ profilesIn = ProfileUniverse
    /\ api["MA0002.1"] = <<Str(1, "P12345", 1), Plain("P12345")>>
    /\ "P12345" \in DOMAIN uniprotOut.content
    /\ Len(uniprotOut.content["Q01094"].profs) = 1

\* ---------------------------------------------------------------------------
\* Properties of _group_by_DBD_composition
\* ---------------------------------------------------------------------------

\* The identifiers of the hits joined by "+", from the left
RECURSIVE CompositionKey(_)
CompositionKey(values) ==
    IF Len(values) = 1 THEN values[1][1]
    ELSE CompositionKey(SubSeq(values, 1, Len(values) - 1)) \o "+" \o values[Len(values)][1]

\* The (taxon, accession) pairs with at least one domain hit
WithHits == {ta \in TaxonIdx \X Accessions :
                ta[2] \in DOMAIN pfamsIn[ta[1]] /\ pfamsIn[ta[1]][ta[2]] # <<>>}

MemberOf(ta) ==
    LET values == pfamsIn[ta[1]][ta[2]]
    IN  <<ProfilesOfAccession(ta[2]), [i \in DOMAIN values |-> values[i][2]], ta[2]>>

\* C7: every accession with a domain hit contributes, per taxon, exactly one
\* member [profiles, alignments, accession] to the group keyed by the "+"-join
\* of its hit identifiers and to no other group; accessions without hits are
\* in no group; no written group is empty.
C7_GroupedByComposition ==
    groupsOut # NoFile =>
        LET out == groupsOut.content
        IN  /\ DOMAIN out = {CompositionKey(pfamsIn[ta[1]][ta[2]]) : ta \in WithHits}
            /\ \A k \in DOMAIN out :
                   /\ out[k] # <<>>
                   /\ Len(out[k]) = Cardinality({ta \in WithHits :
                                                    CompositionKey(pfamsIn[ta[1]][ta[2]]) = k})
                   /\ \A i \in DOMAIN out[k] :
                          \E ta \in WithHits :
                              /\ CompositionKey(pfamsIn[ta[1]][ta[2]]) = k
                              /\ out[k][i] = MemberOf(ta)
            /\ \A ta \in WithHits :
                   \E i \in DOMAIN out[CompositionKey(pfamsIn[ta[1]][ta[2]])] :
                       out[CompositionKey(pfamsIn[ta[1]][ta[2]])][i] = MemberOf(ta)

\* C7 witness: a written file with a group of two domains, while some
\* accession had no hit and two accessions share a composition
C7_Witness ==
    /\ groupsOut # NoFile
    /\ "Sox+Homeobox" \in DOMAIN groupsOut.content
    /\ \E k \in DOMAIN groupsOut.content : Len(groupsOut.content[k]) > 1
    /\ \E t \in TaxonIdx : \E a \in DOMAIN pfamsIn[t] : pfamsIn[t][a] = <<>>

\* ---------------------------------------------------------------------------
\* Properties of _get_Tomtom_hits
\* ---------------------------------------------------------------------------

IsComment(line) == line[1][1] = "#"
IsHeader(line) == line[1] = <<"Q", "u", "e", "r", "y", "_", "I", "D">>
BaseId(id) == [i \in 1..6 |-> id[i]]

\* The rows that count as hits, by their position in the table
HitRows ==
    {i \in DOMAIN tsv : /\ ~IsComment(tsv[i])
                        /\ ~IsHeader(tsv[i])
                        /\ BaseId(tsv[i][2]) # BaseId(tsv[i][1])}

\* The numeric values of the fifth columns of the model
ValueOf(str) ==
    CASE str = <<"0">> -> 0
      [] str = <<"7">> -> 7
      [] str = <<"3">> -> 3
      [] str = <<"1", "2">> -> 12

\* C9: the hits are exactly the rows that are neither comment nor header and
\* whose target has another base matrix identifier than the query, in file
\* order, each as [target id, numeric fifth column]; no version of the
\* query's own matrix is among the hits.
C9_HitsAreForeignRows ==
    hitsOut.written =>
        LET out == hitsOut.content
        IN  /\ Len(out) = Cardinality(HitRows)
            /\ \A k \in DOMAIN out :
                   \E i \in HitRows :
                       /\ Cardinality({j \in HitRows : j < i}) = k - 1
                       /\ out[k] = <<tsv[i][2], ValueOf(tsv[i][5])>>
            /\ \A k \in DOMAIN out : BaseId(out[k][1]) # BaseId(QueryId)

\* C9 witness: a table with another version of the query's matrix and a
\* foreign match has been read and the foreign match returned
C9_Witness ==
    /\ hitsOut.written
    /\ \E i \in DOMAIN tsv : ~IsComment(tsv[i]) /\ tsv[i][2] = OtherVersion
    /\ \E i \in DOMAIN tsv : IsComment(tsv[i]) \/ IsHeader(tsv[i])
    /\ hitsOut.content = << <<OtherMatrix, 12>> >>

\* ---------------------------------------------------------------------------
\* Properties of the leave-one-TF-out folds
\* ---------------------------------------------------------------------------

NamesIn(pairs) == {pairs[i][1] : i \in DOMAIN pairs} \cup {pairs[i][2] : i \in DOMAIN pairs}

\* The indices (from 0) of the pairs a TF is part of
PairsOf(tf) == {i - 1 : i \in {j \in DOMAIN tfPairs : tfPairs[j][1] = tf \/ tfPairs[j][2] = tf}}

NoRepeats(q) == \A i, j \in DOMAIN q : q[i] = q[j] => i = j

\* C10: there is exactly one fold per distinct TF; the test indices of the
\* fold of a TF are exactly the indices of the pairs it is part of; its
\* training indices include none of them; training and test indices are
\* disjoint and cover every pair index.
C10_LeaveOneTFOutFolds ==
    pcCV = "done" =>
        /\ Len(myCViterator) = Cardinality(NamesIn(tfPairs))
        /\ {tfIdxs[k][1] : k \in DOMAIN tfIdxs} = NamesIn(tfPairs)
        /\ NoRepeats([k \in DOMAIN tfIdxs |-> tfIdxs[k][1]])
        /\ \A k \in DOMAIN myCViterator :
               LET tf == tfIdxs[k][1]
                   trainIdx == myCViterator[k][1]
                   testIdx == myCViterator[k][2]
               IN  /\ Range(testIdx) = PairsOf(tf)
                   /\ NoRepeats(testIdx)
                   /\ trainIdx \cap PairsOf(tf) = {}
                   /\ trainIdx \cap Range(testIdx) = {}
                   /\ trainIdx \cup Range(testIdx) = 0..(Len(tfPairs) - 1)

\* C10 witness: folds built for pairs where a TF is second in one pair, first
\* in another and absent from a third
C10_Witness ==
    /\ pcCV = "done"
    /\ Len(tfPairs) = 3
    /\ \E k \in DOMAIN myCViterator :
           /\ myCViterator[k][2] = <<0, 2>>
           /\ myCViterator[k][1] = {1}
           /\ tfPairs[1][2] = tfIdxs[k][1]
           /\ tfPairs[3][1] = tfIdxs[k][1]

\* ---------------------------------------------------------------------------
\* Properties of the regression script
\* ---------------------------------------------------------------------------

\* The pairwise input holds the processed composition with a TF pair
HasProcessedComposition == "Sox" \in DOMAIN pairwise /\ pairwise["Sox"] # <<>>

\* The folds of the processed composition: one per TF name of its pairs
FoldsOf(pairs) == 1..Len(CollectNames(<<>>, pairs))

\* C11: once the regression script has ended on an out_dir that held no
\* models.pickle and on an input holding the processed DBD composition with
\* at least one TF pair, a model was fitted on every fold for both similarity
\* representations and models.pickle exists in out_dir.
C11_ModelsPickleWritten ==
    (pcT # "start" /\ ~modelsAtEntry /\ HasProcessedComposition) =>
        /\ {"identity", "blosum62"} \X FoldsOf(pairwise["Sox"]) \subseteq fitted
        /\ ModelsFile \in trainFs

\* ---------------------------------------------------------------------------
\* Properties of the worker pool
\* ---------------------------------------------------------------------------

\* The calls of Tomtom in progress on the output directory of a profile
CallsOn(dir) ==
    {e \in BagToSet(inflight) : TomtomDir(tasks[e[1]]) = dir}

\* C12: for every pool size and interleaving, the output directory of a
\* query profile is the target of at most one call of Tomtom, at no time two
\* calls are between the check and the run on the same directory, and when
\* the parent reads and removes the directories every profile has had its
\* one call and no call is in progress.
C12_PoolIsRaceFree ==
    /\ \A i \in DOMAIN tasks :
           LET dir == TomtomDir(tasks[i])
           IN  /\ Cardinality({j \in DOMAIN tasks : TomtomDir(tasks[j]) = dir}) = 1
               /\ CopiesIn(i, launched) <= 1
               /\ Cardinality(CallsOn(dir)) <= 1
               /\ \A e \in CallsOn(dir) : CopiesIn(e, inflight) = 1
    /\ parentPc \in {"read", "err", "done"} =>
           /\ inflight = EmptyBag
           /\ \A i \in DOMAIN tasks : CopiesIn(i, launched) = 1

\* C12 witness: the tomtom processes of two workers run at the same time
C12_Witness ==
    \E i, j \in DOMAIN tasks :
        /\ i # j
        /\ BagIn(<<i, "wait">>, inflight)
        /\ BagIn(<<j, "wait">>, inflight)

\* ---------------------------------------------------------------------------
\* Properties of the cut-offs of _download_Pfam_DBD_HMMs
\* ---------------------------------------------------------------------------

\* The identifier a cut-off is kept under
Renamed(id) ==
    CASE id = "DUF260" -> "LOB"
      [] id = "FLO_LFY" -> "SAM_LFY"
      [] OTHER -> id

\* The identifiers of a line of the table, renamed, without "UNKNOWN"
IdsOfLine(line) ==
    {Renamed(line[1][i]) : i \in {j \in DOMAIN line[1] : line[1][j] \notin {",", "UNKNOWN"}}}

IsSingle(line) == Len(line[1]) = 1

FirstOf(S) == CHOOSE i \in S : \A j \in S : i <= j

\* The cut-off the table gives an identifier
ExpectedCutoff(id) ==
    LET singles == {i \in DOMAIN cisbpPairs : IsSingle(cisbpPairs[i]) /\ id \in IdsOfLine(cisbpPairs[i])}
        multis == {i \in DOMAIN cisbpPairs : ~IsSingle(cisbpPairs[i]) /\ id \in IdsOfLine(cisbpPairs[i])}
    IN  IF singles # {} THEN Float100(cisbpPairs[FirstOf(singles)][2])
        ELSE Float100(cisbpPairs[FirstOf(multis)][2])

\* C13: after both loops every identifier of the table, alone or in a list,
\* renamed and other than "UNKNOWN", has one cut-off and no other key has;
\* it is the cut-off of the first single-identifier line of the identifier if
\* there is one, and of the first list holding it otherwise.
C13_OneCutoffPerPfamId ==
    loopNo = 3 =>
        /\ DOMAIN cutoffs = UNION {IdsOfLine(cisbpPairs[i]) : i \in DOMAIN cisbpPairs}
        /\ \A id \in DOMAIN cutoffs : cutoffs[id] = ExpectedCutoff(id)

\* C13 witness: a list precedes the single line of "Sox" and gives a renamed
\* identifier its cut-off
C13_Witness ==
    /\ loopNo = 3
    /\ cisbpPairs = << << <<"DUF260", ",", "Sox">>, "0.7" >>, << <<"Sox">>, "0.9" >> >>
    /\ cutoffs["Sox"] = 90
    /\ cutoffs["LOB"] = 70

\* ---------------------------------------------------------------------------
\* Properties of the pipeline: working directory and clean-up
\* ---------------------------------------------------------------------------

\* C14: a first run of get_files on an empty out_dir, launched from a
\* working directory other than out_dir, does not end with a stage failing
\* to find the artifact of an earlier stage.
C14_EveryInputFound ==
    ~(pc = "idle" /\ runs = <<"err">> /\ cwd # OutDir)

\* A stage function of get_files returns without an exception
StageReturns ==
    /\ pc # "idle"
    /\ runs' = runs \/ runs' = Append(runs, "ok")

\* C16: when a stage function called by get_files returns, skipped or
\* executed, the working directory of the process is the one recorded at the
\* start of get_files.
C16_CwdRestored ==
    [][StageReturns => (procCwd' = cwd /\ cwd' = cwd)]_vars

\* C16 witness: launched from outside out_dir, _download_UniProt_sequences
\* has changed directory, done its work and returned
C16_Witness ==
    /\ pc = "blast"
    /\ cwd = WorkDir
    /\ procCwd = WorkDir
    /\ "queryUniprot" \in calls

\* The paths of the taxon directories
UnderTaxonDirs(files) == {p \in files : \E i \in TaxonIdx : IsPrefix(TaxonDir(i), p)}

\* C18: when the body of _group_by_Tomtom has run to completion, out_dir
\* holds groups.tomtom.json.gz and neither groups.tomtom.json, nor the Tomtom
\* directory of a queried profile, nor a taxon directory; when the body of
\* _group_by_DBD_composition has, out_dir holds groups.DBDs.json.gz and not
\* groups.DBDs.json.
C18_GroupingStagesCleanUp ==
    [][/\ (pc = "tomtom" /\ TomtomGz \notin fs /\ runs' = Append(runs, "ok")) =>
              /\ TomtomGz \in fs'
              /\ TomtomJson \notin fs'
              /\ \A p \in queried' : TomtomDir(p) \notin fs' /\ TomtomTsv(p) \notin fs'
              /\ UnderTaxonDirs(fs') = {}
       /\ (pc = "dbd" /\ DBDsGz \notin fs /\ pc' = "tomtom") =>
              /\ DBDsGz \in fs'
              /\ DBDsJson \notin fs']_vars

\* C18 witness: both grouping stages have run their body in a complete run
\* that compared profiles
C18_Witness ==
    /\ pc = "idle"
    /\ runs = <<"ok">>
    /\ queried # {}
    /\ UnderTaxonDirs(fs) = {}
    /\ {TomtomGz, DBDsGz, JasparMeme} \subseteq fs

\* ---------------------------------------------------------------------------
\* Properties of _get_profiles_from_latest_version
\* ---------------------------------------------------------------------------

\* C17: the returned list holds only paths of the argument, one path for
\* every base matrix identifier of the argument, and that path carries the
\* highest version number of the paths of the argument with its identifier.
C17_HighestVersionPerMatrix ==
    pcL = "returned" =>
        /\ Range(latest_version_profiles) \subseteq pathsIn
        /\ \A p \in pathsIn :
               Cardinality({i \in DOMAIN latest_version_profiles :
                               MatrixOf(latest_version_profiles[i]) = MatrixOf(p)}) = 1
        /\ \A i \in DOMAIN latest_version_profiles :
               \A p \in pathsIn :
                   MatrixOf(p) = MatrixOf(latest_version_profiles[i]) =>
                       VersionOf(p) <= VersionOf(latest_version_profiles[i])

\* ---------------------------------------------------------------------------
\* Properties of get_files interrupted and launched again
\* ---------------------------------------------------------------------------

\* C15: whenever get_files is at an existence check and the artifact it
\* looks for exists, the work the check guards is complete: both archives of
\* the taxon are unzipped, <taxon>.fa holds every record and its BLAST
\* database exists, jaspar.meme holds every profile.
C15_GuardMeansWorkComplete ==
    /\ (iPc = "jaspar" /\ TaxonDir(iTaxon) \in iFs) =>
           UnzippedFmt(iTaxon, "jaspar") \cup UnzippedFmt(iTaxon, "meme") \subseteq iFs
    /\ (iPc = "blast" /\ FastaFile(iTaxon) \in iFs) =>
           fastaRecs[iTaxon] = NumRecords /\ BlastDb(iTaxon) \subseteq iFs
    /\ (iPc = "database" /\ JasparMeme \in iFs) =>
           dbContent = GetProfilesFromLatestVersion(GlobMeme(iFs))
====
